---- MODULE Spec2Model ----
(***************************************************************************)
(* Model of paastel-build (src/src/bin/build.rs): the ignore-rule engine,  *)
(* the context archiver, the image reference splitter and the build / push *)
(* stream consumers driven by run() and main().                            *)
(*                                                                         *)
(* Strings are sequences of one-character strings, so that rfind, slicing, *)
(* trimming and glob matching are computed character by character.         *)
(***************************************************************************)
EXTENDS Integers, Sequences, FiniteSets, TLC

VARIABLES
    pc,         \* control position of main()/run() or of the function under check
    image,      \* args.image
    pull,       \* args.pull
    dockerfile, \* args.dockerfile
    ctxExists,  \* whether the context directory exists
    tree,       \* what WalkDir yields for the context: entries [path, kind], root first
    ignoreFile, \* Some(lines of <context>/.dockerignore), or None when absent
    rules,      \* Option<Dockerignore>: Some(rule list) or None
    loads,      \* number of calls of load_dockerignore so far
    badLine,    \* Some(raw line named by the error of load_dockerignore), or None
    walkPos,    \* WalkDir iterator: index in tree of the next entry to yield
    tar,        \* tar_builder: names of the appended entries, in order
    compressed, \* Some(bytes returned by build_context_tar_gz), or None
    buildReq,   \* Some(request given to docker.build_image), or None
    pushReq,    \* Some(request given to docker.push_image), or None
    buildState, \* build consumer: Idle, Streaming, Drained, Aborted
    pushState,  \* push consumer: Idle, Streaming, Drained, Aborted
    arrived,    \* stream items delivered so far, in order: [phase, item]
    log,        \* process output in emission order: [fd, what, n]
    result,     \* Some(what run() returned to main), or None
    exitCode,   \* Some(process exit code), or None while running
    fault,      \* Some(I/O fault the environment raised), or None
    relPath,    \* Some(argument of is_ignored), or None
    ignored,    \* Some(result of is_ignored), or None
    repoTag,    \* Some(result of split_image), or None
    \* the paastel CLI (cli.rs)
    config_toml,    \* None (no config.toml) or Some(the Config in the file)
    session_toml,   \* None (no session.toml) or Some(the SessionContext)
    command,        \* None or Some(the last CLI command that ran)
    outcome,        \* None or Some("Ok" / "Err"): what its main returned
    sent,           \* the GraphQL requests the last command sent
    \* the git shell (git_shell.rs)
    original_command,   \* SSH_ORIGINAL_COMMAND
    repo_exists,        \* does the full repository path exist
    git_cmd,            \* None or Some(candidate) from parse_git_command
    repo_rel,           \* None or Some(path) from sanitize_repo_path
    effects,            \* filesystem and subprocess effects so far, in order
    exit_status         \* None or Some("Ok" / error kind): what main returned

vars == <<pc, image, pull, dockerfile, ctxExists, tree, ignoreFile, rules,
          loads, badLine, walkPos, tar, compressed, buildReq, pushReq, buildState,
          pushState, arrived, log, result, exitCode, fault, relPath, ignored,
          repoTag, config_toml, session_toml, command, outcome, sent,
          original_command, repo_exists, git_cmd, repo_rel,
          effects, exit_status>>

cliVars == <<config_toml, session_toml, command, outcome, sent>>
buildVars ==
    <<image, pull, dockerfile, ctxExists, tree, ignoreFile, rules, loads,
      badLine, walkPos, tar, compressed, buildReq, pushReq, buildState,
      pushState, arrived, log, result, exitCode, fault, relPath, ignored,
      repoTag>>
shellVars ==
    <<original_command, repo_exists, git_cmd, repo_rel, effects,
      exit_status>>

argVars == <<image, pull, dockerfile>>
fsVars == <<ctxExists, tree, ignoreFile>>
archiveVars == <<rules, loads, badLine, walkPos, tar, compressed>>
streamVars == <<buildReq, pushReq, buildState, pushState, arrived>>
fnVars == <<relPath, ignored>>

\* Option<T>: None, or Some(x)
None == <<>>
Some(x) == <<x>>

-----------------------------------------------------------------------------
(* Bounds *)

MaxImageLen == 5
MaxLines == 3
MaxItems == 3
MaxIgnoreLines == 2

\* longest text after the command word of an SSH command
MaxPathLen == 3

-----------------------------------------------------------------------------
(* Strings *)

RECURSIVE StringsUpTo(_, _)
StringsUpTo(alphabet, n) ==
    IF n = 0 THEN {<<>>}
    ELSE LET shorter == StringsUpTo(alphabet, n - 1)
         IN  shorter \cup {Append(s, ch) : s \in shorter, ch \in alphabet}

\* the greatest element of a non-empty set of positions
Last(S) == CHOOSE i \in S : \A j \in S : j <= i

LATEST == <<"l", "a", "t", "e", "s", "t">>

NGINX == <<"n", "g", "i", "n", "x">>
SAMPLE_NGINX_DEV ==
    <<"s", "a", "m", "p", "l", "e", "-", "n", "g", "i", "n", "x", ":", "d", "e", "v">>
SAMPLE_NGINX == <<"s", "a", "m", "p", "l", "e", "-", "n", "g", "i", "n", "x">>
DEV == <<"d", "e", "v">>
LOCALHOST_5000_NGINX ==
    <<"l", "o", "c", "a", "l", "h", "o", "s", "t", ":", "5", "0", "0", "0", "/",
      "n", "g", "i", "n", "x">>
LOCALHOST_5000_TESTE_NGINX ==
    <<"l", "o", "c", "a", "l", "h", "o", "s", "t", ":", "5", "0", "0", "0", "/",
      "t", "e", "s", "t", "e", "/", "n", "g", "i", "n", "x">>
LOCALHOST_5000_TESTE_NGINX_DEV == LOCALHOST_5000_TESTE_NGINX \o <<":">> \o DEV

ImageAlphabet == {"n", ":", "/"}

ExampleImages ==
    {NGINX, SAMPLE_NGINX_DEV, LOCALHOST_5000_NGINX, LOCALHOST_5000_TESTE_NGINX_DEV}

ImageStrings == StringsUpTo(ImageAlphabet, MaxImageLen) \cup ExampleImages

-----------------------------------------------------------------------------
(* split_image *)

\* str::rfind(ch): the last position holding ch, 0 standing for Option::None
RECURSIVE rfindFrom(_, _, _)
rfindFrom(s, ch, i) ==
    IF i = 0 THEN 0
    ELSE IF s[i] = ch THEN i
    ELSE rfindFrom(s, ch, i - 1)

rfind(s, ch) == rfindFrom(s, ch, Len(s))

\* str::find(ch): the first position holding ch, 0 standing for Option::None
RECURSIVE findFrom(_, _, _)
findFrom(s, ch, i) ==
    IF i > Len(s) THEN 0
    ELSE IF s[i] = ch THEN i
    ELSE findFrom(s, ch, i + 1)

find(s, ch) == findFrom(s, ch, 1)

cutAt(s, c) == <<SubSeq(s, 1, c - 1), SubSeq(s, c + 1, Len(s))>>

split_image_first_colon(img) ==
    LET c == find(img, ":")
        s == rfind(img, "/")
    IN  IF c # 0 /\ s # 0 /\ c > s THEN cutAt(img, c)
        ELSE IF c # 0 /\ s = 0 THEN cutAt(img, c)
        ELSE <<img, LATEST>>

split_image_tag_keeps_colon(img) ==
    LET last_colon == rfind(img, ":")
        last_slash == rfind(img, "/")
    IN  IF last_colon # 0 /\ (last_slash = 0 \/ last_colon > last_slash)
            THEN <<SubSeq(img, 1, last_colon - 1),
                   SubSeq(img, last_colon, Len(img))>>
        ELSE <<img, LATEST>>

split_image(img) ==
    LET last_colon == rfind(img, ":")
        last_slash == rfind(img, "/")
    IN  IF last_colon # 0 /\ last_slash # 0 /\ last_colon > last_slash
            THEN cutAt(img, last_colon)
        ELSE IF last_colon # 0 /\ last_slash = 0
            THEN cutAt(img, last_colon)
        ELSE <<img, LATEST>>

-----------------------------------------------------------------------------
(* Ignore rules: globset::Glob, load_dockerignore, Dockerignore::is_ignored *)

S_star_log == <<"*", ".", "l", "o", "g">>
S_keep_log == <<"k", "e", "e", "p", ".", "l", "o", "g">>
S_not_keep_log == <<"!">> \o S_keep_log
S_app_log == <<"a", "p", "p", ".", "l", "o", "g">>
S_notes_txt == <<"n", "o", "t", "e", "s", ".", "t", "x", "t">>
S_build == <<"b", "u", "i", "l", "d">>
S_build_slash == S_build \o <<"/">>
S_build_out == S_build \o <<"/", "o", "u", "t">>
S_node_modules == <<"n", "o", "d", "e", "_", "m", "o", "d", "u", "l", "e", "s">>
S_node_modules_m == S_node_modules \o <<"/", "m">>
S_node_modules_log == S_node_modules \o <<".", "l", "o", "g">>
S_src == <<"s", "r", "c">>
S_src_build == S_src \o <<"/">> \o S_build
S_src_build_o == S_src_build \o <<"/", "o">>
S_Dockerfile == <<"D", "o", "c", "k", "e", "r", "f", "i", "l", "e">>
S_dockerignore ==
    <<".", "d", "o", "c", "k", "e", "r", "i", "g", "n", "o", "r", "e">>
S_link == <<"l", "i", "n", "k">>
S_pipe == <<"p", "i", "p", "e">>
S_comment == <<"#", " ", "x">>
S_blank == <<" ">>
S_padded_star_log == <<" ">> \o S_star_log \o <<" ">>
S_not_all == <<"!", " ", "*">>
S_unclosed == <<"[", "a">>
S_star == <<"*">>
S_a_backslash_b == <<"a", "\\", "b">>
S_a_slash_b == <<"a", "/", "b">>

IsWhitespace(ch) == ch \in {" ", "\t"}

\* str::trim_start
RECURSIVE trim_start(_)
trim_start(s) ==
    IF s # <<>> /\ IsWhitespace(Head(s)) THEN trim_start(Tail(s)) ELSE s

\* str::trim_end
RECURSIVE trim_end(_)
trim_end(s) ==
    IF s # <<>> /\ IsWhitespace(s[Len(s)])
        THEN trim_end(SubSeq(s, 1, Len(s) - 1))
        ELSE s

\* str::trim
trim(s) == trim_end(trim_start(s))

\* Glob::new(line): the patterns of the model use literal characters, '*',
\* '?' and '['; a '[' that no later ']' closes is a parse error
\* (ErrorKind::UnclosedClass).
GlobNewFails(pat) ==
    \E i \in 1..Len(pat) :
        /\ pat[i] = "["
        /\ \A j \in (i + 1)..Len(pat) : pat[j] # "]"

\* GlobMatcher::is_match with the default options (literal_separator off):
\* the whole path must match; '*' matches any run of characters and '?'
\* any one character, the separator '/' included.
RECURSIVE GlobMatchFrom(_, _, _, _)
GlobMatchFrom(pat, i, path, j) ==
    IF i > Len(pat) THEN j > Len(path)
    ELSE IF pat[i] = "*"
        THEN \/ GlobMatchFrom(pat, i + 1, path, j)
             \/ j <= Len(path) /\ GlobMatchFrom(pat, i, path, j + 1)
    ELSE IF pat[i] = "?"
        THEN j <= Len(path) /\ GlobMatchFrom(pat, i + 1, path, j + 1)
    ELSE /\ j <= Len(path)
         /\ pat[i] = path[j]
         /\ GlobMatchFrom(pat, i + 1, path, j + 1)

is_match(glob, path) == GlobMatchFrom(glob, 1, path, 1)

parse_line_untrimmed_remainder(raw_line) ==
    LET line == trim(raw_line)
    IN  IF line = <<>> \/ Head(line) = "#" THEN [kind |-> "skip"]
        ELSE LET negated == Head(line) = "!"
                 pattern == IF negated THEN Tail(line) ELSE line
             IN  IF GlobNewFails(pattern)
                     THEN [kind |-> "error", raw_line |-> raw_line]
                     ELSE [kind |-> "rule",
                           rule |-> [glob |-> pattern, is_exclude |-> ~negated]]

\* The body of the loop of load_dockerignore for one raw line:
\* "skip", "error" or the rule the line stands for.
parse_line(raw_line) ==
    LET line == trim(raw_line)
    IN  IF line = <<>> \/ Head(line) = "#" THEN [kind |-> "skip"]
        ELSE LET negated == Head(line) = "!"
                 pattern == IF negated THEN trim_start(Tail(line)) ELSE line
             IN  IF GlobNewFails(pattern)
                     THEN [kind |-> "error", raw_line |-> raw_line]
                     ELSE [kind |-> "rule",
                           rule |-> [glob |-> pattern, is_exclude |-> ~negated]]

RECURSIVE parse_lines(_, _)
parse_lines(lines, acc) ==
    IF lines = <<>> THEN [kind |-> "ok", rules |-> acc]
    ELSE LET r == parse_line(Head(lines))
         IN  IF r.kind = "error" THEN r
             ELSE IF r.kind = "skip" THEN parse_lines(Tail(lines), acc)
             ELSE parse_lines(Tail(lines), Append(acc, r.rule))

load_dockerignore_empty_engine(file) ==
    IF file = None THEN [kind |-> "ok", value |-> None]
    ELSE LET r == parse_lines(file[1], <<>>)
         IN  IF r.kind = "error" THEN r
             ELSE [kind |-> "ok", value |-> Some(r.rules)]

\* load_dockerignore: file is None (no .dockerignore) or Some(its lines).
\* The result is [kind |-> "ok", value |-> None or the rule list]
\* or [kind |-> "error", raw_line |-> the offending line].
load_dockerignore(file) ==
    IF file = None THEN [kind |-> "ok", value |-> None]
    ELSE LET r == parse_lines(file[1], <<>>)
         IN  IF r.kind = "error" THEN r
             ELSE IF r.rules = <<>> THEN [kind |-> "ok", value |-> None]
             ELSE [kind |-> "ok", value |-> Some(r.rules)]

RECURSIVE is_ignored_first_match(_, _, _, _, _)
is_ignored_first_match(rs, rel_path, i, matched_any, result_is_exclude) ==
    IF i > Len(rs) THEN matched_any /\ result_is_exclude
    ELSE IF is_match(rs[i].glob, rel_path) /\ ~matched_any
        THEN is_ignored_first_match(rs, rel_path, i + 1, TRUE, rs[i].is_exclude)
        ELSE is_ignored_first_match(rs, rel_path, i + 1, matched_any,
                                    result_is_exclude)

\* The loop of Dockerignore::is_ignored from rule i on
RECURSIVE is_ignored_from(_, _, _, _, _)
is_ignored_from(rs, rel_path, i, matched_any, result_is_exclude) ==
    IF i > Len(rs) THEN matched_any /\ result_is_exclude
    ELSE IF is_match(rs[i].glob, rel_path)
        THEN is_ignored_from(rs, rel_path, i + 1, TRUE, rs[i].is_exclude)
        ELSE is_ignored_from(rs, rel_path, i + 1, matched_any,
                             result_is_exclude)

is_ignored(rs, rel_path) == is_ignored_from(rs, rel_path, 1, FALSE, FALSE)

-----------------------------------------------------------------------------
(* State shared by every specification: everything not in use is idle. *)

\* The CLI and the git shell have not run
IdleCli ==
    /\ config_toml = None
    /\ session_toml = None
    /\ command = None
    /\ outcome = None
    /\ sent = <<>>

IdleShell ==
    /\ original_command = <<>>
    /\ repo_exists = FALSE
    /\ git_cmd = None
    /\ repo_rel = None
    /\ effects = <<>>
    /\ exit_status = None

IdleRun ==
    /\ IdleCli
    /\ IdleShell
    /\ pull = FALSE
    /\ dockerfile = <<>>
    /\ ctxExists = TRUE
    /\ tree = <<>>
    /\ rules = None
    /\ loads = 0
    /\ badLine = None
    /\ walkPos = 1
    /\ tar = <<>>
    /\ compressed = None
    /\ buildReq = None
    /\ pushReq = None
    /\ buildState = "Idle"
    /\ pushState = "Idle"
    /\ arrived = <<>>
    /\ log = <<>>
    /\ result = None
    /\ exitCode = None
    /\ fault = None

-----------------------------------------------------------------------------
(* SpecSplit: split_image applied to every bounded image string *)

InitSplit ==
    /\ pc = "split_call"
    /\ image \in ImageStrings
    /\ repoTag = None
    /\ relPath = None
    /\ ignored = None
    /\ ignoreFile = None
    /\ IdleRun

SplitImageCall ==
    /\ pc = "split_call"
    /\ repoTag' = Some(split_image(image))
    /\ pc' = "split_ret"
    /\ UNCHANGED <<cliVars, shellVars, argVars, fsVars, archiveVars, streamVars, fnVars, log,
                   result, exitCode, fault>>

NextSplit == SplitImageCall

SpecSplit == InitSplit /\ [][NextSplit]_vars

-----------------------------------------------------------------------------
(* SpecIgnore: load_dockerignore on every bounded ignore file, then        *)
(* is_ignored on the loaded rules and a relative path                      *)

LinePool ==
    {S_star_log, S_not_keep_log, S_build_slash, S_node_modules, S_comment,
     S_blank, S_padded_star_log, S_not_all, S_unclosed}

PathPool ==
    {S_app_log, S_keep_log, S_notes_txt, S_build, S_build_out, S_node_modules,
     S_node_modules_m, S_node_modules_log, S_src_build_o}

IgnoreFiles == UNION {[1..n -> LinePool] : n \in 0..MaxLines}

InitIgnore ==
    /\ pc = "load_call"
    /\ ignoreFile \in {Some(f) : f \in IgnoreFiles}
    /\ image = <<>>
    /\ repoTag = None
    /\ relPath = None
    /\ ignored = None
    /\ IdleRun

LoadDockerignoreCall ==
    /\ pc = "load_call"
    /\ loads' = loads + 1
    /\ LET r == load_dockerignore(ignoreFile)
       IN  IF r.kind = "error"
               THEN /\ pc' = "load_err"
                    /\ rules' = None
                    /\ badLine' = Some(r.raw_line)
               ELSE /\ rules' = r.value
                    /\ pc' = IF r.value = None THEN "load_none" ELSE "ignore_call"
                    /\ UNCHANGED badLine
    /\ UNCHANGED <<cliVars, shellVars, argVars, fsVars, walkPos, tar, compressed, streamVars,
                   fnVars, log, result, exitCode, fault, repoTag>>

IsIgnoredCall ==
    /\ pc = "ignore_call"
    /\ \E p \in PathPool :
        /\ relPath' = Some(p)
        /\ ignored' = Some(is_ignored(rules[1], p))
    /\ pc' = "ignore_ret"
    /\ UNCHANGED <<cliVars, shellVars, argVars, fsVars, archiveVars, streamVars, log, result,
                   exitCode, fault, repoTag>>

NextIgnore == LoadDockerignoreCall \/ IsIgnoredCall

SpecIgnore == InitIgnore /\ [][NextIgnore]_vars

-----------------------------------------------------------------------------
(* C1: is_ignored(path) is true exactly when some rule matches the path    *)
(* and the last rule in list order that matches it is an exclude rule; a   *)
(* path no rule matches is never ignored. With the rules "*.log",          *)
(* "!keep.log" in that order app.log is ignored, keep.log and notes.txt    *)
(* are not.                                                                *)

MatchingRules(rs, path) == {i \in 1..Len(rs) : is_match(rs[i].glob, path)}

LastMatchPolarity ==
    pc = "ignore_ret" =>
        LET rs == rules[1]
            m == MatchingRules(rs, relPath[1])
        IN  /\ m = {} => ignored = Some(FALSE)
            /\ m # {} => ignored = Some(rs[Last(m)].is_exclude)
            /\ ignoreFile = Some(<<S_star_log, S_not_keep_log>>) =>
                 /\ relPath = Some(S_app_log) => ignored = Some(TRUE)
                 /\ relPath = Some(S_keep_log) => ignored = Some(FALSE)
                 /\ relPath = Some(S_notes_txt) => ignored = Some(FALSE)

LastMatchPolarityWitness ==
    /\ pc = "ignore_ret"
    /\ ignoreFile = Some(<<S_star_log, S_not_keep_log>>)
    /\ relPath = Some(S_keep_log)
    /\ Cardinality(MatchingRules(rules[1], relPath[1])) = 2
    /\ ignored = Some(FALSE)

-----------------------------------------------------------------------------
(* C2: split_image agrees with the reference rule on every input: with a   *)
(* ':' and either no '/' or the last ':' after the last '/', the result is *)
(* (text before the last ':', text after it); otherwise (input, "latest"). *)
(* The four normative examples hold.                                       *)

Positions(s, ch) == {i \in 1..Len(s) : s[i] = ch}

TagSeparated(s) ==
    /\ Positions(s, ":") # {}
    /\ \/ Positions(s, "/") = {}
       \/ Last(Positions(s, ":")) > Last(Positions(s, "/"))

Before(s, i) == [k \in 1..(i - 1) |-> s[k]]
After(s, i) == [k \in 1..(Len(s) - i) |-> s[i + k]]

SplitReference ==
    pc = "split_ret" =>
        /\ TagSeparated(image) =>
             LET c == Last(Positions(image, ":"))
             IN  repoTag = Some(<<Before(image, c), After(image, c)>>)
        /\ ~TagSeparated(image) => repoTag = Some(<<image, LATEST>>)
        /\ image = NGINX => repoTag = Some(<<NGINX, LATEST>>)
        /\ image = SAMPLE_NGINX_DEV => repoTag = Some(<<SAMPLE_NGINX, DEV>>)
        /\ image = LOCALHOST_5000_TESTE_NGINX_DEV
             => repoTag = Some(<<LOCALHOST_5000_TESTE_NGINX, DEV>>)
        /\ image = LOCALHOST_5000_NGINX
             => repoTag = Some(<<LOCALHOST_5000_NGINX, LATEST>>)

SplitReferenceWitness ==
    /\ pc = "split_ret"
    /\ image = <<"n", ":", "n", "/", "n">>
    /\ repoTag = Some(<<image, LATEST>>)

(* C3: the pair returned by split_image has a non-empty repository and a   *)
(* non-empty tag.                                                          *)

SplitNonEmpty ==
    pc = "split_ret" => repoTag[1][1] # <<>> /\ repoTag[1][2] # <<>>

-----------------------------------------------------------------------------
(* The build context on disk *)

Entry(p, k) == [path |-> p, kind |-> k]

S_build_star == S_build \o <<"/", "*">>

\* The entries WalkDir::new(context_dir).follow_links(false) can yield, in
\* the order it yields them: the root first, every directory before its
\* contents. A "symlink" points to a regular file. The file named a\b has
\* a backslash in its name, which is no separator on the host.
AllEntries ==
    << Entry(<<>>, "dir"),
       Entry(S_dockerignore, "file"),
       Entry(S_Dockerfile, "file"),
       Entry(S_a_backslash_b, "file"),
       Entry(S_build, "dir"),
       Entry(S_build_out, "file"),
       Entry(S_link, "symlink"),
       Entry(S_node_modules, "dir"),
       Entry(S_node_modules_m, "file"),
       Entry(S_node_modules_log, "file"),
       Entry(S_pipe, "fifo"),
       Entry(S_src, "dir"),
       Entry(S_src_build, "dir"),
       Entry(S_src_build_o, "file") >>

\* Path::parent of a relative path; <<>> is the context root
parent(p) ==
    LET s == rfind(p, "/") IN IF s = 0 THEN <<>> ELSE SubSeq(p, 1, s - 1)

PathsOf(entries) == {entries[i].path : i \in 1..Len(entries)}

ParentClosed(S) == <<>> \in S /\ \A q \in S : q = <<>> \/ parent(q) \in S

\* The listing of the tree that holds exactly the paths S; the Dockerfile
\* is a regular file or a link to one.
Listing(S, dockerfileKind) ==
    LET present(e) == e.path \in S
        kindOf(e) == IF e.path = S_Dockerfile THEN dockerfileKind ELSE e.kind
        picked == SelectSeq(AllEntries, present)
    IN  [i \in 1..Len(picked) |-> Entry(picked[i].path, kindOf(picked[i]))]

TreesOver(paths, dockerfileKinds) ==
    {Listing(S, k) : S \in {T \in SUBSET paths : ParentClosed(T)},
                     k \in dockerfileKinds}

\* The tree goes with the ignore file: .dockerignore is an entry of the
\* tree exactly when the file exists.
Consistent(t, file) == (S_dockerignore \in PathsOf(t)) <=> (file # None)

\* Path::exists on context_dir.join(name): true for any kind of entry
Exists(t, name) == \E i \in 1..Len(t) : t[i].path = name

\* rel.to_string_lossy().replace('\\', "/")
rel_str(path) == [i \in 1..Len(path) |-> IF path[i] = "\\" THEN "/" ELSE path[i]]

\* The bytes GzEncoder produces for the finished tar
gzip(tarBytes) == [gz |-> tarBytes]

-----------------------------------------------------------------------------
(* main() and run() *)

Out(what, n) == [fd |-> "out", what |-> what, n |-> n]
Err(what, n) == [fd |-> "err", what |-> what, n |-> n]

\* run() returns Err(kind) to main
ReturnErr(kind) ==
    /\ result' = Some(kind)
    /\ pc' = "run_ret"

\* lines 62-68
CheckContext ==
    /\ pc = "run_start"
    /\ IF ctxExists
           THEN pc' = "check_dockerfile" /\ UNCHANGED result
           ELSE ReturnErr("ctx_missing")
    /\ UNCHANGED <<cliVars, shellVars, argVars, fsVars, archiveVars, streamVars, fnVars, log,
                   exitCode, fault, repoTag>>

CheckDockerfileSkipped ==
    /\ pc = "check_dockerfile"
    /\ pc' = "connect"
    /\ UNCHANGED <<cliVars, shellVars, argVars, fsVars, archiveVars, streamVars, fnVars, log,
                   result, exitCode, fault, repoTag>>

\* lines 70-77
CheckDockerfile ==
    /\ pc = "check_dockerfile"
    /\ IF Exists(tree, dockerfile)
           THEN pc' = "connect" /\ UNCHANGED result
           ELSE ReturnErr("dockerfile_missing")
    /\ UNCHANGED <<cliVars, shellVars, argVars, fsVars, archiveVars, streamVars, fnVars, log,
                   exitCode, fault, repoTag>>

\* lines 79-81: the client is built
Connect ==
    /\ pc = "connect"
    /\ log' = Append(log, Out("connecting", 0))
    /\ pc' = "load_ignore"
    /\ UNCHANGED <<cliVars, shellVars, argVars, fsVars, archiveVars, streamVars, fnVars, result,
                   exitCode, fault, repoTag>>

\* lines 79-81: building the client fails
ConnectFails ==
    /\ pc = "connect"
    /\ log' = Append(log, Out("connecting", 0))
    /\ fault' = Some("connect")
    /\ ReturnErr("connect")
    /\ UNCHANGED <<cliVars, shellVars, argVars, fsVars, archiveVars, streamVars, fnVars, exitCode,
                   repoTag>>

\* lines 83-84, 286: build_context_tar_gz starts by loading the ignore file
LoadIgnoreKeepsPartialRules ==
    /\ pc = "load_ignore"
    /\ log' = Append(log, Out("preparing", 0))
    /\ loads' = loads + 1
    /\ LET r == load_dockerignore(ignoreFile)
       IN  IF r.kind = "error"
               THEN /\ rules' = None
                    /\ pc' = "walk"
                    /\ UNCHANGED <<result, badLine>>
               ELSE /\ rules' = r.value
                    /\ pc' = "walk"
                    /\ UNCHANGED <<result, badLine>>
    /\ UNCHANGED <<cliVars, shellVars, argVars, fsVars, walkPos, tar, compressed, streamVars,
                   fnVars, exitCode, fault, repoTag>>

\* lines 286-288 with load_dockerignore, lines 247-281
LoadIgnore ==
    /\ pc = "load_ignore"
    /\ log' = Append(log, Out("preparing", 0))
    /\ loads' = loads + 1
    /\ LET r == load_dockerignore(ignoreFile)
       IN  IF r.kind = "error"
               THEN /\ ReturnErr("pattern")
                    /\ badLine' = Some(r.raw_line)
                    /\ UNCHANGED rules
               ELSE /\ rules' = r.value
                    /\ pc' = "walk"
                    /\ UNCHANGED <<result, badLine>>
    /\ UNCHANGED <<cliVars, shellVars, argVars, fsVars, walkPos, tar, compressed, streamVars,
                   fnVars, exitCode, fault, repoTag>>

\* lines 253-255: fs::read_to_string fails on an existing .dockerignore
LoadIgnoreReadFails ==
    /\ pc = "load_ignore"
    /\ ignoreFile # None
    /\ log' = Append(log, Out("preparing", 0))
    /\ loads' = loads + 1
    /\ fault' = Some("read_ignore")
    /\ ReturnErr("read_ignore")
    /\ UNCHANGED <<cliVars, shellVars, argVars, fsVars, rules, badLine, walkPos, tar, compressed,
                   streamVars, fnVars, exitCode, repoTag>>

\* lines 294-310 for one yielded entry: "skip" or "append"
entry_action_no_file_check(entry, di) ==
    IF entry.path = <<>> THEN "skip"
    ELSE IF di # None /\ is_ignored(di[1], rel_str(entry.path)) THEN "skip"
    ELSE "append"

entry_action_unfiltered(entry, di) ==
    IF entry.path = <<>> THEN "skip"
    ELSE IF entry.kind = "file" THEN "append"
    ELSE "skip"

entry_action(entry, di) ==
    IF entry.path = <<>> THEN "skip"
    ELSE IF di # None /\ is_ignored(di[1], rel_str(entry.path)) THEN "skip"
    ELSE IF entry.kind = "file" THEN "append"
    ELSE "skip"

WalkNextReloading ==
    /\ pc = "walk"
    /\ IF walkPos > Len(tree)
           THEN /\ pc' = "finalize"
                /\ UNCHANGED <<walkPos, tar, loads>>
           ELSE /\ walkPos' = walkPos + 1
                /\ loads' = loads + 1
                /\ tar' = IF entry_action(tree[walkPos], rules) = "append"
                              THEN Append(tar, rel_str(tree[walkPos].path))
                              ELSE tar
                /\ pc' = "walk"
    /\ UNCHANGED <<cliVars, shellVars, argVars, fsVars, rules, badLine, compressed,
                   streamVars, fnVars, log, result, exitCode, fault, repoTag>>

\* lines 290-323: one iteration of the walk, or its end
WalkNext ==
    /\ pc = "walk"
    /\ IF walkPos > Len(tree)
           THEN /\ pc' = "finalize"
                /\ UNCHANGED <<walkPos, tar>>
           ELSE /\ walkPos' = walkPos + 1
                /\ tar' = IF entry_action(tree[walkPos], rules) = "append"
                              THEN Append(tar, rel_str(tree[walkPos].path))
                              ELSE tar
                /\ pc' = "walk"
    /\ UNCHANGED <<cliVars, shellVars, argVars, fsVars, rules, loads, badLine, compressed,
                   streamVars, fnVars, log, result, exitCode, fault, repoTag>>

\* line 291: the walk yields an error instead of an entry
WalkEntryFails ==
    /\ pc = "walk"
    /\ walkPos <= Len(tree)
    /\ fault' = Some("walk")
    /\ ReturnErr("walk")
    /\ UNCHANGED <<cliVars, shellVars, argVars, fsVars, archiveVars, streamVars, fnVars, log,
                   exitCode, repoTag>>

AppendFailsSkipsFile ==
    /\ pc = "walk"
    /\ walkPos <= Len(tree)
    /\ entry_action(tree[walkPos], rules) = "append"
    /\ walkPos' = walkPos + 1
    /\ fault' = Some("append")
    /\ UNCHANGED <<cliVars, shellVars, argVars, fsVars, rules, loads, badLine, tar, compressed,
                   streamVars, fnVars, log, exitCode, repoTag, pc, result>>

\* lines 314-321: append_path_with_name fails on a file to be archived
AppendFails ==
    /\ pc = "walk"
    /\ walkPos <= Len(tree)
    /\ entry_action(tree[walkPos], rules) = "append"
    /\ walkPos' = walkPos + 1
    /\ fault' = Some("append")
    /\ ReturnErr("append")
    /\ UNCHANGED <<cliVars, shellVars, argVars, fsVars, rules, loads, badLine, tar, compressed,
                   streamVars, fnVars, log, exitCode, repoTag>>

\* lines 325-327
Finalize ==
    /\ pc = "finalize"
    /\ pc' = "compress"
    /\ UNCHANGED <<cliVars, shellVars, argVars, fsVars, archiveVars, streamVars, fnVars, log,
                   result, exitCode, fault, repoTag>>

FinalizeFails ==
    /\ pc = "finalize"
    /\ fault' = Some("finalize")
    /\ ReturnErr("finalize")
    /\ UNCHANGED <<cliVars, shellVars, argVars, fsVars, archiveVars, streamVars, fnVars, log,
                   exitCode, repoTag>>

\* lines 329-339: build_context_tar_gz returns the compressed bytes
Compress ==
    /\ pc = "compress"
    /\ compressed' = Some(gzip(tar))
    /\ pc' = "build_submit"
    /\ UNCHANGED <<cliVars, shellVars, argVars, fsVars, rules, loads, badLine, walkPos, tar,
                   streamVars, fnVars, log, result, exitCode, fault, repoTag>>

CompressFails ==
    /\ pc = "compress"
    /\ fault' = Some("gzip")
    /\ ReturnErr("gzip")
    /\ UNCHANGED <<cliVars, shellVars, argVars, fsVars, archiveVars, streamVars, fnVars, log,
                   exitCode, repoTag>>

-----------------------------------------------------------------------------
(* The build and push event streams *)

Text == Some("text")

\* Item of the build stream: Ok(BuildInfo) or Err(bollard error)
BuildItems ==
    {[kind |-> "Ok", stream |-> st, error |-> er] :
        st \in {None, Text}, er \in {None, Text}}
    \cup {[kind |-> "Err"]}

\* Item of the push stream: Ok(PushImageInfo) or Err(bollard error)
PushItems ==
    {[kind |-> "Ok", status |-> st, progress |-> pr, error |-> er] :
        st \in {None, Text}, pr \in {None, Text}, er \in {None, Text}}
    \cup {[kind |-> "Err"]}

Arrival(phase, item) == [phase |-> phase, item |-> item]

SubmitBuildPullAlwaysSent ==
    /\ pc = "build_submit"
    /\ log' = Append(log, Out("build_start", 0))
    /\ buildReq' = Some([dockerfile |-> dockerfile,
                         t |-> Some(image),
                         rm |-> TRUE,
                         pull |-> Some(IF pull THEN "true" ELSE "false"),
                         body |-> compressed[1]])
    /\ buildState' = "Streaming"
    /\ pc' = "build_stream"
    /\ UNCHANGED <<cliVars, shellVars, argVars, fsVars, archiveVars, pushReq, pushState, arrived,
                   fnVars, result, exitCode, fault, repoTag>>

\* lines 86-113: the build request is made and its stream opened
SubmitBuild ==
    /\ pc = "build_submit"
    /\ log' = Append(log, Out("build_start", 0))
    /\ buildReq' = Some([dockerfile |-> dockerfile,
                         t |-> Some(image),
                         rm |-> TRUE,
                         pull |-> IF pull THEN Some("true") ELSE None,
                         body |-> compressed[1]])
    /\ buildState' = "Streaming"
    /\ pc' = "build_stream"
    /\ UNCHANGED <<cliVars, shellVars, argVars, fsVars, archiveVars, pushReq, pushState, arrived,
                   fnVars, result, exitCode, fault, repoTag>>

\* lines 116-128: what the loop does with one item of the build stream
build_chunk_ignoring_errors(chunk) == "continue"

build_chunk_embedded_fatal(chunk) ==
    IF chunk.kind = "Ok" /\ chunk.error = None THEN "continue" ELSE "return_err"

build_chunk(chunk) == IF chunk.kind = "Ok" THEN "continue" ELSE "return_err"

\* lines 117-124: the output of one decoded build message, n its arrival index
build_output_exclusive(output, n) ==
    IF output.stream # None THEN <<Out("build_stream", n)>>
    ELSE IF output.error # None THEN <<Err("build_error", n)>>
    ELSE <<>>

build_output(output, n) ==
    (IF output.stream # None THEN <<Out("build_stream", n)>> ELSE <<>>)
    \o (IF output.error # None THEN <<Err("build_error", n)>> ELSE <<>>)

\* lines 115-129: stream.next() yields an item
BuildStreamItem ==
    /\ pc = "build_stream"
    /\ Len(arrived) < MaxItems
    /\ \E chunk \in BuildItems :
        /\ arrived' = Append(arrived, Arrival("build", chunk))
        /\ IF build_chunk(chunk) = "continue"
               THEN /\ log' = IF chunk.kind = "Ok"
                                  THEN log \o build_output(chunk, Len(arrived) + 1)
                                  ELSE log
                    /\ UNCHANGED <<pc, buildState, result>>
               ELSE /\ buildState' = "Aborted"
                    /\ ReturnErr("build_stream")
                    /\ UNCHANGED log
    /\ UNCHANGED <<cliVars, shellVars, argVars, fsVars, archiveVars, buildReq, pushReq, pushState,
                   fnVars, exitCode, fault, repoTag>>

\* lines 115, 131-132: stream.next() yields None, the loop ends
BuildStreamEnd ==
    /\ pc = "build_stream"
    /\ buildState' = "Drained"
    /\ log' = Append(log, Out("build_done", 0))
    /\ pc' = "push_submit"
    /\ UNCHANGED <<cliVars, shellVars, argVars, fsVars, archiveVars, buildReq, pushReq, pushState,
                   arrived, fnVars, result, exitCode, fault, repoTag>>

\* lines 135, 149-164: push_image_to_registry makes the push request
SubmitPush ==
    /\ pc = "push_submit"
    /\ repoTag' = Some(split_image(image))
    /\ log' = Append(log, Out("push_start", 0))
    /\ pushReq' = Some([repo |-> split_image(image)[1],
                        tag |-> split_image(image)[2],
                        credentials |-> None])
    /\ pushState' = "Streaming"
    /\ pc' = "push_stream"
    /\ UNCHANGED <<cliVars, shellVars, argVars, fsVars, archiveVars, buildReq, buildState, arrived,
                   fnVars, result, exitCode, fault>>

\* lines 167-189: what the loop does with one item of the push stream
push_chunk_ignoring_errors(chunk) == "continue"

push_chunk_abort_on_embedded(chunk) ==
    IF chunk.kind = "Ok" /\ chunk.error = None THEN "continue" ELSE "return_err"

push_chunk(chunk) == IF chunk.kind = "Ok" THEN "continue" ELSE "return_err"

\* lines 168-185: the output of one decoded push message, n its arrival index
push_output_twice(status, n) ==
    IF status.error # None THEN <<Err("push_error", n)>>
    ELSE IF status.status # None /\ status.progress # None
        THEN <<Out("push_status_progress", n)>>
    ELSE IF status.status # None /\ status.progress = None
        THEN <<Out("push_status", n), Out("push_status", n)>>
    ELSE <<>>

push_output_status_first(status, n) ==
    IF status.status # None /\ status.progress # None
        THEN <<Out("push_status_progress", n)>>
    ELSE IF status.status # None /\ status.progress = None
        THEN <<Out("push_status", n)>>
    ELSE IF status.error # None THEN <<Err("push_error", n)>>
    ELSE <<>>

push_output_error_and_status(status, n) ==
    (IF status.error # None THEN <<Err("push_error", n)>> ELSE <<>>)
    \o (IF status.status # None /\ status.progress # None
            THEN <<Out("push_status_progress", n)>>
        ELSE IF status.status # None THEN <<Out("push_status", n)>>
        ELSE <<>>)

push_output(status, n) ==
    IF status.error # None THEN <<Err("push_error", n)>>
    ELSE IF status.status # None /\ status.progress # None
        THEN <<Out("push_status_progress", n)>>
    ELSE IF status.status # None /\ status.progress = None
        THEN <<Out("push_status", n)>>
    ELSE <<>>

\* lines 166-190: stream.next() yields an item
PushStreamItem ==
    /\ pc = "push_stream"
    /\ Len(arrived) < MaxItems
    /\ \E chunk \in PushItems :
        /\ arrived' = Append(arrived, Arrival("push", chunk))
        /\ IF push_chunk(chunk) = "continue"
               THEN /\ log' = IF chunk.kind = "Ok"
                                  THEN log \o push_output(chunk, Len(arrived) + 1)
                                  ELSE log
                    /\ UNCHANGED <<pc, pushState, result>>
               ELSE /\ pushState' = "Aborted"
                    /\ ReturnErr("push_stream")
                    /\ UNCHANGED log
    /\ UNCHANGED <<cliVars, shellVars, argVars, fsVars, archiveVars, buildReq, pushReq, buildState,
                   fnVars, exitCode, fault, repoTag>>

\* lines 166, 192-193, 135-137: the loop ends, the push and run() return Ok
PushStreamEnd ==
    /\ pc = "push_stream"
    /\ pushState' = "Drained"
    /\ log' = Append(log, Out("push_done", 0))
    /\ result' = Some("Ok")
    /\ pc' = "run_ret"
    /\ UNCHANGED <<cliVars, shellVars, argVars, fsVars, archiveVars, buildReq, pushReq, buildState,
                   arrived, fnVars, exitCode, fault, repoTag>>

\* lines 52-57: the exit code main gives for the result of run()
exit_code_always_zero(res) == 0

exit_code(res) == IF res = "Ok" THEN 0 ELSE 1

\* lines 52-57: main reports the error of run() and the process exits
MainExit ==
    /\ pc = "run_ret"
    /\ log' = IF result[1] = "Ok" THEN log
              ELSE Append(log, Err("paastel-build error", 0))
    /\ exitCode' = Some(exit_code(result[1]))
    /\ pc' = "exited"
    /\ UNCHANGED <<cliVars, shellVars, argVars, fsVars, archiveVars, streamVars, fnVars, result,
                   fault, repoTag>>

-----------------------------------------------------------------------------
(* Spec: a whole run of paastel-build on a small context, with I/O faults  *)

RunPaths == {<<>>, S_dockerignore, S_Dockerfile, S_build, S_build_out}

RunTrees == TreesOver(RunPaths, {"file"})

RunIgnoreFiles ==
    {None, Some(<<S_build_star>>), Some(<<S_star>>),
     Some(<<S_build_star, S_unclosed>>)}

RunImages == {SAMPLE_NGINX_DEV, LOCALHOST_5000_NGINX}

InitRun ==
    /\ IdleCli
    /\ IdleShell
    /\ pc = "run_start"
    /\ image \in RunImages
    /\ pull \in BOOLEAN
    /\ dockerfile = S_Dockerfile
    /\ ctxExists \in BOOLEAN
    /\ tree \in IF ctxExists THEN RunTrees ELSE {<<>>}
    /\ ignoreFile \in IF ctxExists THEN RunIgnoreFiles ELSE {None}
    /\ Consistent(tree, ignoreFile)
    /\ rules = None
    /\ loads = 0
    /\ badLine = None
    /\ walkPos = 1
    /\ tar = <<>>
    /\ compressed = None
    /\ buildReq = None
    /\ pushReq = None
    /\ buildState = "Idle"
    /\ pushState = "Idle"
    /\ arrived = <<>>
    /\ log = <<>>
    /\ result = None
    /\ exitCode = None
    /\ fault = None
    /\ relPath = None
    /\ ignored = None
    /\ repoTag = None

Next ==
    \/ CheckContext
    \/ CheckDockerfile
    \/ Connect
    \/ ConnectFails
    \/ LoadIgnore
    \/ LoadIgnoreReadFails
    \/ WalkNext
    \/ WalkEntryFails
    \/ AppendFails
    \/ Finalize
    \/ FinalizeFails
    \/ Compress
    \/ CompressFails
    \/ SubmitBuild
    \/ BuildStreamItem
    \/ BuildStreamEnd
    \/ SubmitPush
    \/ PushStreamItem
    \/ PushStreamEnd
    \/ MainExit

Spec == InitRun /\ [][Next]_vars

\* The run with progress: run() is sequential code that always takes its
\* next step, and a finite stream yields its next item or ends.
InitLive == InitRun /\ image = SAMPLE_NGINX_DEV /\ ~pull

SpecLive == InitLive /\ [][Next]_vars /\ WF_vars(Next)

-----------------------------------------------------------------------------
(* SpecArchive: run() up to the return of build_context_tar_gz, on every   *)
(* tree over AllEntries and every bounded ignore file, without I/O faults  *)

ArchiveLinePool ==
    {S_build_slash, S_node_modules, S_build_star, S_comment, S_blank,
     S_unclosed}

ArchiveIgnoreFiles ==
    {None} \cup
    {Some(f) : f \in UNION {[1..n -> ArchiveLinePool] : n \in 0..MaxIgnoreLines}}

ArchiveTrees == TreesOver(PathsOf(AllEntries), {"file", "symlink"})

InitArchive ==
    /\ IdleCli
    /\ IdleShell
    /\ pc = "run_start"
    /\ image = NGINX
    /\ pull = FALSE
    /\ dockerfile = S_Dockerfile
    /\ ctxExists = TRUE
    /\ tree \in ArchiveTrees
    /\ ignoreFile \in ArchiveIgnoreFiles
    /\ Consistent(tree, ignoreFile)
    /\ rules = None
    /\ loads = 0
    /\ badLine = None
    /\ walkPos = 1
    /\ tar = <<>>
    /\ compressed = None
    /\ buildReq = None
    /\ pushReq = None
    /\ buildState = "Idle"
    /\ pushState = "Idle"
    /\ arrived = <<>>
    /\ log = <<>>
    /\ result = None
    /\ exitCode = None
    /\ fault = None
    /\ relPath = None
    /\ ignored = None
    /\ repoTag = None

NextArchive ==
    \/ CheckContext
    \/ CheckDockerfile
    \/ Connect
    \/ LoadIgnore
    \/ WalkNext
    \/ Finalize
    \/ Compress
    \/ MainExit

SpecArchive == InitArchive /\ [][NextArchive]_vars

-----------------------------------------------------------------------------
(* C4: the phases happen in the order archive, build, push without         *)
(* overlap: the build request is submitted only after build_context_tar_gz *)
(* returned the complete buffer, the push request only after the build     *)
(* stream was drained to its end without a transport error; after an       *)
(* aborted build stream no push request is submitted.                      *)

ItemsOf(phase) ==
    {i \in 1..Len(arrived) : arrived[i].phase = phase}

TransportErrors(phase) ==
    {i \in ItemsOf(phase) : arrived[i].item.kind = "Err"}

Archiving == pc \in {"load_ignore", "walk", "finalize", "compress"}

PhasesInOrder ==
    /\ Archiving => buildReq = None /\ buildState = "Idle"
    /\ buildReq # None =>
         /\ compressed # None
         /\ walkPos > Len(tree)
         /\ buildReq[1].body = gzip(tar)
    /\ buildState = "Streaming" => pushReq = None /\ pushState = "Idle"
    /\ pushReq # None =>
         /\ buildState = "Drained"
         /\ TransportErrors("build") = {}
    /\ TransportErrors("build") # {} => pushReq = None /\ pushState = "Idle"
    /\ \A i \in ItemsOf("push"), j \in ItemsOf("build") : j < i

PhasesInOrderWitness ==
    /\ pc = "exited"
    /\ pushState = "Drained"
    /\ tar # <<>>
    /\ ItemsOf("build") # {}
    /\ ItemsOf("push") # {}

(* C5: in both consumers the first stream-level error aborts at once: no   *)
(* later item is read, no output is produced for that or any later item,   *)
(* the phase returns an error, nothing is retried and the process exits    *)
(* with a non-zero code.                                                   *)

AbortedPhase == IF TransportErrors("build") # {} THEN "build" ELSE "push"

TransportErrorAborts ==
    /\ [](TransportErrors("build") \cup TransportErrors("push") # {} =>
            /\ TransportErrors("build") \cup TransportErrors("push")
                 = {Len(arrived)}
            /\ \A k \in 1..Len(log) : log[k].n # Len(arrived)
            /\ AbortedPhase = "build" =>
                 buildState = "Aborted" /\ result = Some("build_stream")
            /\ AbortedPhase = "push" =>
                 pushState = "Aborted" /\ result = Some("push_stream")
            /\ pc \in {"run_ret", "exited"}
            /\ pc = "exited" => exitCode = Some(1))
    /\ [][buildState = "Aborted" \/ pushState = "Aborted" =>
            /\ UNCHANGED <<streamVars, archiveVars>>
            /\ log' \in {log, Append(log, Err("paastel-build error", 0))}]_vars

TransportErrorAbortsWitness ==
    /\ pc = "exited"
    /\ pushState = "Aborted"
    /\ Len(arrived) = 3
    /\ arrived[1].phase = "build"
    /\ arrived[2].phase = "push"

(* C6: a decoded message with an embedded error field never changes the    *)
(* control state: the consumer keeps streaming, reaches Drained at the end *)
(* of the stream, a drained build is followed by the push and the run can  *)
(* end in success.                                                         *)

EmbeddedErrors(phase) ==
    {i \in ItemsOf(phase) :
        arrived[i].item.kind = "Ok" /\ arrived[i].item.error # None}

EmbeddedErrorNotFatal ==
    /\ [][(/\ Len(arrived') = Len(arrived) + 1
           /\ arrived'[Len(arrived')].item.kind = "Ok")
          => UNCHANGED <<pc, buildState, pushState, result, exitCode>>]_vars
    /\ [](buildState = "Drained" => pc = "push_submit" \/ pushReq # None)
    /\ [](pushState = "Drained" =>
            /\ result = Some("Ok")
            /\ pc = "exited" => exitCode = Some(0))
    /\ [](TransportErrors("build") = {} => buildState # "Aborted")
    /\ [](TransportErrors("push") = {} => pushState # "Aborted")

EmbeddedErrorNotFatalWitness ==
    /\ pc = "exited"
    /\ exitCode = Some(0)
    /\ EmbeddedErrors("build") # {}
    /\ EmbeddedErrors("push") # {}

(* C7: the exit code is 0 exactly when every phase completed without a     *)
(* fatal error, and 1 with a message on the error stream whenever a fatal  *)
(* error (config, pattern, I/O, archive or transport) occurred.            *)

BadPattern(file) ==
    /\ file # None
    /\ \E i \in 1..Len(file[1]) : parse_line(file[1][i]).kind = "error"

FatalOccurred ==
    \/ ~ctxExists
    \/ ~Exists(tree, dockerfile)
    \/ fault # None
    \/ loads > 0 /\ BadPattern(ignoreFile)
    \/ TransportErrors("build") # {}
    \/ TransportErrors("push") # {}

ExitCodeReflectsFatal ==
    pc = "exited" =>
        /\ exitCode = Some(0) <=> ~FatalOccurred
        /\ exitCode = Some(0) =>
             /\ compressed # None
             /\ buildState = "Drained"
             /\ pushState = "Drained"
        /\ FatalOccurred =>
             /\ exitCode = Some(1)
             /\ log # <<>>
             /\ log[Len(log)] = Err("paastel-build error", 0)

ExitCodeReflectsFatalWitness ==
    /\ pc = "exited"
    /\ exitCode = Some(1)
    /\ fault = Some("append")

(* C8: with the context directory or the Dockerfile path missing the run   *)
(* fails with a configuration error before archiving begins: the ignore    *)
(* file is not read, the tree is not walked, no build or push request is   *)
(* submitted.                                                              *)

ConfigCheckedFirst ==
    (~ctxExists \/ ~Exists(tree, dockerfile)) =>
        /\ loads = 0
        /\ rules = None
        /\ walkPos = 1
        /\ tar = <<>>
        /\ compressed = None
        /\ buildReq = None
        /\ pushReq = None
        /\ pc \in {"run_start", "check_dockerfile", "run_ret", "exited"}
        /\ result # None =>
             result = Some(IF ctxExists THEN "dockerfile_missing"
                                        ELSE "ctx_missing")

ConfigCheckedFirstWitness ==
    /\ pc = "exited"
    /\ ctxExists
    /\ ~Exists(tree, dockerfile)
    /\ ignoreFile # None
    /\ Len(tree) > 2

(* C9: every entry of the archive is a regular file of the tree: no        *)
(* directory, no symbolic link, no other special file and never the        *)
(* context root.                                                           *)

OnlyRegularFilesArchived ==
    \A i \in 1..Len(tar) :
        /\ tar[i] # <<>>
        /\ \E j \in 1..Len(tree) :
            /\ rel_str(tree[j].path) = tar[i]
            /\ tree[j].kind = "file"

OnlyRegularFilesArchivedWitness ==
    /\ pc = "build_submit"
    /\ \E j \in 1..Len(tree) : tree[j].kind = "symlink"
    /\ \E j \in 1..Len(tree) : tree[j].kind = "fifo"
    /\ \E j \in 2..Len(tree) : tree[j].kind = "dir"
    /\ tar # <<>>

(* C10: with the rules `build/` and `node_modules` in the ignore file,     *)
(* every file under a build/ or node_modules/ directory at any depth is    *)
(* absent from the archive, and a sibling file named node_modules.log is   *)
(* present.                                                                *)

\* the path has a directory component named dir above its last component
Under(path, dir) ==
    \E i \in 1..Len(path) :
        /\ path[i] = "/"
        /\ i > Len(dir)
        /\ SubSeq(path, i - Len(dir), i - 1) = dir
        /\ (i - Len(dir) = 1 \/ path[i - Len(dir) - 1] = "/")

TarNames == {tar[i] : i \in 1..Len(tar)}

DirectoryRulesPrune ==
    (/\ ignoreFile = Some(<<S_build_slash, S_node_modules>>)
     /\ compressed # None)
    => /\ \A name \in TarNames :
            ~Under(name, S_build) /\ ~Under(name, S_node_modules)
       /\ Exists(tree, S_node_modules_log) => S_node_modules_log \in TarNames

(* C11: unpacking the archive yields exactly the filtered file set: the    *)
(* entry names are the normalized relative paths of the regular files      *)
(* whose own relative path the ignore rules do not exclude, nothing        *)
(* missing, nothing extra, each file once, and no name holds a backslash.  *)

\* decompressing the bytes gives the tar back
gunzip(bytes) == bytes.gz

\* the last rule matching the path is an exclude rule
Excluded(di, path) ==
    /\ di # None
    /\ LET m == MatchingRules(di[1], path)
       IN  m # {} /\ di[1][Last(m)].is_exclude

FilteredFiles ==
    {j \in 2..Len(tree) :
        tree[j].kind = "file" /\ ~Excluded(rules, rel_str(tree[j].path))}

ArchiveRoundTrip ==
    compressed # None =>
        LET names == gunzip(compressed[1])
        IN  /\ {names[i] : i \in 1..Len(names)}
                 = {rel_str(tree[j].path) : j \in FilteredFiles}
            /\ Len(names) = Cardinality(FilteredFiles)
            /\ \A i \in 1..Len(names) :
                 \A k \in 1..Len(names[i]) : names[i][k] # "\\"

ArchiveRoundTripWitness ==
    /\ pc = "build_submit"
    /\ Exists(tree, S_a_backslash_b)
    /\ S_a_slash_b \in TarNames
    /\ Exists(tree, S_build_out)
    /\ S_build_out \notin TarNames
    /\ Len(tar) >= 3

(* C12: load_dockerignore returns no engine when the ignore file does not   *)
(* exist or holds only blank and comment lines; archiving then applies no  *)
(* filter and every regular file under the root is archived.  An engine    *)
(* that is returned has at least one rule.                                 *)

\* the line is blank or a comment
Unusable(raw_line) ==
    LET t == trim(raw_line) IN t = <<>> \/ t[1] = "#"

NoUsableLine ==
    \/ ignoreFile = None
    \/ \A i \in 1..Len(ignoreFile[1]) : Unusable(ignoreFile[1][i])

RegularFiles == {j \in 2..Len(tree) : tree[j].kind = "file"}

NoEngineWithoutRules ==
    /\ (NoUsableLine /\ pc \in {"walk", "finalize", "compress", "build_submit"})
           => rules = None
    /\ (NoUsableLine /\ compressed # None)
           => /\ TarNames = {rel_str(tree[j].path) : j \in RegularFiles}
              /\ Len(tar) = Cardinality(RegularFiles)
    /\ rules # None => Len(rules[1]) >= 1

NoEngineWithoutRulesWitness ==
    /\ pc = "build_submit"
    /\ ignoreFile = Some(<<S_comment, S_blank>>)
    /\ rules = None
    /\ Len(tar) >= 3
    /\ S_build_out \in TarNames

(* C13: if a usable line of the ignore file fails to compile as a glob,    *)
(* loading fails with an error naming the offending raw line and archiving *)
(* is aborted entirely: the rules parsed before the bad line filter        *)
(* nothing, no entry is walked or archived, no bytes are returned and no   *)
(* build request is submitted.                                             *)

\* the pattern a usable line stands for
PatternOf(raw_line) ==
    LET t == trim(raw_line)
    IN  IF t[1] = "!" THEN trim_start(Tail(t)) ELSE t

Uncompilable(raw_line) ==
    ~Unusable(raw_line) /\ GlobNewFails(PatternOf(raw_line))

BadLines ==
    IF ignoreFile = None THEN {}
    ELSE {i \in 1..Len(ignoreFile[1]) : Uncompilable(ignoreFile[1][i])}

FirstBadLine == CHOOSE i \in BadLines : \A k \in BadLines : i <= k

BadPatternAborts ==
    BadLines # {} =>
        /\ rules = None
        /\ walkPos = 1
        /\ tar = <<>>
        /\ compressed = None
        /\ buildReq = None
        /\ pushReq = None
        /\ pc \in {"run_start", "check_dockerfile", "connect", "load_ignore",
                   "run_ret", "exited"}
        /\ (loads = 1 /\ fault = None)
               => /\ result = Some("pattern")
                  /\ badLine = Some(ignoreFile[1][FirstBadLine])

BadPatternAbortsWitness ==
    /\ ignoreFile = Some(<<S_build_star, S_unclosed>>)
    /\ badLine = Some(S_unclosed)
    /\ Exists(tree, S_build_out)
    /\ pc = "exited"
    /\ exitCode = Some(1)

(* C14: for each decoded build message, a log-chunk field is written to the *)
(* progress output and an embedded-error field to the error output; the    *)
(* two checks are independent: a message with both fields produces both    *)
(* outputs, chunk first, and a message with neither produces none.         *)

\* positions of the log at which the record stands
LogPositions(rec) == {k \in 1..Len(log) : log[k] = rec}

\* positions of the log holding an output made for message i
OutputsFor(i) == {k \in 1..Len(log) : log[k].n = i}

OkItems(phase) == {i \in ItemsOf(phase) : arrived[i].item.kind = "Ok"}

BuildFieldsIndependent ==
    \A i \in OkItems("build") :
        LET m == arrived[i].item
            chunks == LogPositions(Out("build_stream", i))
            errors == LogPositions(Err("build_error", i))
        IN  /\ Cardinality(chunks) = IF m.stream # None THEN 1 ELSE 0
            /\ Cardinality(errors) = IF m.error # None THEN 1 ELSE 0
            /\ OutputsFor(i) = chunks \cup errors
            /\ \A c \in chunks : \A e \in errors : c < e

BuildFieldsIndependentWitness ==
    \E i, j \in OkItems("build") :
        /\ arrived[i].item.stream # None /\ arrived[i].item.error # None
        /\ Cardinality(OutputsFor(i)) = 2
        /\ arrived[j].item.stream = None /\ arrived[j].item.error = None
        /\ OutputsFor(j) = {}
        /\ i < j

(* C15: for both consumers the reported outputs follow the arrival order   *)
(* of the stream messages: the output of an earlier message comes before   *)
(* the output of a later one, no output is made for a message that has not *)
(* arrived, and nothing is held back and emitted late or twice.            *)

OutputsInArrivalOrder ==
    /\ [](\A k \in 1..Len(log) : log[k].n <= Len(arrived))
    /\ [](\A k, l \in 1..Len(log) :
            (k < l /\ log[k].n > 0 /\ log[l].n > 0) => log[k].n <= log[l].n)
    /\ [](\A k, l \in 1..Len(log) :
            (k < l /\ log[k].n > 0) => log[k] # log[l])
    /\ [][/\ Len(log') >= Len(log)
          /\ SubSeq(log', 1, Len(log)) = log
          /\ \A k \in (Len(log) + 1)..Len(log') :
               log'[k].n > 0 =>
                  /\ Len(arrived') = Len(arrived) + 1
                  /\ log'[k].n = Len(arrived')]_vars

OutputsInArrivalOrderWitness ==
    /\ Len(arrived) = 3
    /\ arrived[1].phase = "build"
    /\ arrived[2].phase = "push"
    /\ \A i \in 1..3 : OutputsFor(i) # {}
    /\ Cardinality(OutputsFor(1)) = 2

(* C16: for each decoded push message, over every subset of the fields     *)
(* status, progress and error: an error field is reported to the error     *)
(* output, a status with a progress is reported as one pair, a status      *)
(* without progress is reported alone, a message with none of the fields   *)
(* produces no output, and consumption continues with the next message.    *)
(* As stated this fails for a message holding an error next to a status.   *)

PushFieldsAllReported ==
    /\ \A i \in OkItems("push") :
         LET m == arrived[i].item
         IN  /\ m.error # None => LogPositions(Err("push_error", i)) # {}
             /\ (m.status # None /\ m.progress # None)
                    => LogPositions(Out("push_status_progress", i)) # {}
             /\ (m.status # None /\ m.progress = None)
                    => LogPositions(Out("push_status", i)) # {}
             /\ (m.status = None /\ m.progress = None /\ m.error = None)
                    => OutputsFor(i) = {}
    /\ TransportErrors("push") = {} => pushState # "Aborted"

(* C16 as the code has it: the first case that applies decides.  A message *)
(* with an error field yields the error report only; without an error      *)
(* field, a status with a progress yields the pair and a status without    *)
(* progress yields the status alone; a message without error and without   *)
(* status yields nothing.  Consumption continues in every case.            *)

\* the one output the message gets, None for no output
PushReportOf(m, i) ==
    IF m.error # None THEN Some(Err("push_error", i))
    ELSE IF m.status = None THEN None
    ELSE IF m.progress # None THEN Some(Out("push_status_progress", i))
    ELSE Some(Out("push_status", i))

PushFieldsByPriority ==
    /\ [](\A i \in OkItems("push") :
            LET r == PushReportOf(arrived[i].item, i)
            IN  IF r = None THEN OutputsFor(i) = {}
                ELSE /\ Cardinality(OutputsFor(i)) = 1
                     /\ OutputsFor(i) = LogPositions(r[1]))
    /\ [][(/\ Len(arrived') = Len(arrived) + 1
           /\ arrived'[Len(arrived')] \in
                {Arrival("push", m) : m \in PushItems \ {[kind |-> "Err"]}})
          => /\ pc' = "push_stream"
             /\ pushState' = "Streaming"
             /\ result' = result]_vars

PushFieldsByPriorityWitness ==
    /\ Len(arrived) = 3
    /\ \E i \in OkItems("push") :
         /\ arrived[i].item.error # None /\ arrived[i].item.status # None
         /\ OutputsFor(i) = LogPositions(Err("push_error", i))
         /\ \E j \in OkItems("push") :
              /\ j > i
              /\ arrived[j].item.error = None
              /\ arrived[j].item.status = None
              /\ arrived[j].item.progress # None
              /\ OutputsFor(j) = {}

(* C17: whenever a directory's own relative path is excluded by the ignore *)
(* engine, the whole subtree is pruned: no regular file anywhere below     *)
(* that directory is in the archive.                                       *)

\* the name lies below the directory
Below(name, dir) ==
    /\ Len(name) > Len(dir) + 1
    /\ SubSeq(name, 1, Len(dir)) = dir
    /\ name[Len(dir) + 1] = "/"

ExcludedDirectories ==
    {j \in 2..Len(tree) :
        tree[j].kind = "dir" /\ Excluded(rules, rel_str(tree[j].path))}

SubtreePruned ==
    compressed # None =>
        \A j \in ExcludedDirectories :
            \A name \in TarNames : ~Below(name, rel_str(tree[j].path))

(* C18: loading an ignore file produces one rule for each line that, after *)
(* trimming, is non-empty and does not start with '#', in the order of the *)
(* lines; a line starting with '!' yields an include rule whose pattern is *)
(* the remainder of the line, every other line an exclude rule whose       *)
(* pattern is the trimmed line.  As stated (remainder taken as it is) this *)
(* fails for a line with whitespace after the '!'.                         *)

Loaded == pc \in {"load_none", "ignore_call", "ignore_ret"}

UsableLines ==
    {i \in 1..Len(ignoreFile[1]) : ~Unusable(ignoreFile[1][i])}

\* the place of usable line i among the usable lines
Rank(i) == Cardinality({k \in UsableLines : k <= i})

RuleList == IF rules = None THEN <<>> ELSE rules[1]

\* the text after the '!' of a trimmed line, as it stands
RemainderOf(raw_line) ==
    LET t == trim(raw_line)
    IN  IF t[1] = "!" THEN Tail(t) ELSE t

RulesMirrorLinesVerbatim ==
    Loaded =>
        /\ Len(RuleList) = Cardinality(UsableLines)
        /\ \A i \in UsableLines :
             RuleList[Rank(i)] =
                 [glob |-> RemainderOf(ignoreFile[1][i]),
                  is_exclude |-> trim(ignoreFile[1][i])[1] # "!"]

(* C18 as the code has it: on a successful load there is one rule for each *)
(* usable line, in line order; a line starting with '!' yields an include  *)
(* rule whose pattern is the remainder of the trimmed line with its        *)
(* leading whitespace removed, every other line an exclude rule whose      *)
(* pattern is the trimmed line.                                            *)

RulesMirrorLines ==
    Loaded =>
        /\ Len(RuleList) = Cardinality(UsableLines)
        /\ \A i \in UsableLines :
             RuleList[Rank(i)] =
                 [glob |-> PatternOf(ignoreFile[1][i]),
                  is_exclude |-> trim(ignoreFile[1][i])[1] # "!"]

RulesMirrorLinesWitness ==
    /\ pc = "ignore_call"
    /\ ignoreFile = Some(<<S_comment, S_not_all, S_padded_star_log>>)
    /\ rules = Some(<<[glob |-> <<"*">>, is_exclude |-> FALSE],
                      [glob |-> S_star_log, is_exclude |-> TRUE]>>)

(* C19: the build request always has the remove-intermediate-containers    *)
(* flag set, carries the dockerfile name and the full unsplit image string *)
(* as tag, carries the pull option exactly when --pull was given, and has  *)
(* as body exactly the bytes the archiver returned.                        *)

BuildRequestShape ==
    buildReq # None =>
        /\ buildReq[1].rm = TRUE
        /\ buildReq[1].dockerfile = dockerfile
        /\ buildReq[1].t = Some(image)
        /\ buildReq[1].pull # None <=> pull
        /\ pull => buildReq[1].pull = Some("true")
        /\ compressed # None
        /\ buildReq[1].body = compressed[1]

BuildRequestShapeWitness ==
    /\ buildReq # None
    /\ ~pull
    /\ buildReq[1].pull = None
    /\ buildReq[1].t = Some(LOCALHOST_5000_NGINX)
    /\ buildReq[1].body.gz # <<>>
    /\ pc = "exited"

(* C20: within one archiving run the ignore file is loaded exactly once,   *)
(* before the walk starts, and the rule list is not modified afterwards:   *)
(* every is_ignored call of the walk sees the same ordered rule list and   *)
(* the call itself changes nothing.                                        *)

Walking == pc \in {"walk", "finalize", "compress", "build_submit"}

RulesLoadedOnce ==
    /\ [](loads <= 1)
    /\ [](loads = 0 => walkPos = 1 /\ tar = <<>> /\ rules = None)
    /\ [](Walking => /\ loads = 1
                     /\ rules = load_dockerignore(ignoreFile).value)
    /\ [][pc = "walk" => UNCHANGED <<rules, loads, ignoreFile>>]_vars
    /\ [][loads' # loads => pc = "load_ignore" /\ walkPos = 1]_vars

RulesLoadedOnceWitness ==
    /\ pc = "build_submit"
    /\ loads = 1
    /\ rules # None
    /\ Len(rules[1]) = 2
    /\ walkPos > 6
    /\ \E j \in 2..Len(tree) : Excluded(rules, rel_str(tree[j].path))

(* C21: for every finite event stream each consumer eventually reaches     *)
(* exactly one of the terminal states Drained or Aborted and never leaves  *)
(* it; it reaches Drained iff the stream held no transport error; the only *)
(* transitions are Streaming->Streaming on a decoded message,              *)
(* Streaming->Aborted on a transport error and Streaming->Drained on       *)
(* stream end.  Hence the whole run terminates.                            *)

Terminal == {"Drained", "Aborted"}

\* the step receives an item of the phase's stream of the given kind
Receives(phase, kind) ==
    /\ Len(arrived') = Len(arrived) + 1
    /\ arrived'[Len(arrived')].phase = phase
    /\ arrived'[Len(arrived')].item.kind = kind

\* the step receives no item of the phase's stream
Quiet(phase) == ~Receives(phase, "Ok") /\ ~Receives(phase, "Err")

\* the step of a consumer from state st to state st2 is one the loop has
ConsumerStep(phase, st, st2) ==
    \/ st = "Idle" /\ st2 \in {"Idle", "Streaming"} /\ Quiet(phase)
    \/ st = "Streaming" /\ st2 = "Streaming" /\ Quiet(phase)
    \/ st = "Streaming" /\ st2 = "Streaming" /\ Receives(phase, "Ok")
    \/ st = "Streaming" /\ st2 = "Aborted" /\ Receives(phase, "Err")
    \/ st = "Streaming" /\ st2 = "Drained" /\ Quiet(phase)
    \/ st \in Terminal /\ st2 = st

ConsumersTerminate ==
    /\ [][/\ ConsumerStep("build", buildState, buildState')
          /\ ConsumerStep("push", pushState, pushState')]_vars
    /\ [][(Receives("build", "Ok") \/ Receives("build", "Err"))
            => buildState = "Streaming"]_vars
    /\ [][(Receives("push", "Ok") \/ Receives("push", "Err"))
            => pushState = "Streaming"]_vars
    /\ [](buildState = "Drained" => TransportErrors("build") = {})
    /\ [](buildState = "Aborted" => TransportErrors("build") # {})
    /\ [](pushState = "Drained" => TransportErrors("push") = {})
    /\ [](pushState = "Aborted" => TransportErrors("push") # {})
    /\ (buildState = "Streaming" ~> buildState \in Terminal)
    /\ (pushState = "Streaming" ~> pushState \in Terminal)
    /\ <>(pc = "exited")

ConsumersTerminateWitness ==
    /\ pc = "exited"
    /\ buildState = "Drained"
    /\ pushState = "Aborted"
    /\ Len(arrived) = 3
    /\ OkItems("build") # {}
    /\ OkItems("push") # {}

(* C22: archiving and compression are two discrete stages: compression     *)
(* starts only after the walk has finished and the archive is finalized,   *)
(* so a failure of the walk or of an append precedes compression; on any   *)
(* archiving failure an error and no bytes are returned, and no build      *)
(* request is submitted.                                                   *)

ArchivingFaults == {"read_ignore", "walk", "append", "finalize", "gzip"}

ArchivingFailed ==
    \/ fault # None /\ fault[1] \in ArchivingFaults
    \/ result = Some("pattern")

ArchiveThenCompress ==
    /\ [][pc' # pc /\ pc' = "compress"
            => /\ pc = "finalize"
               /\ walkPos > Len(tree)
               /\ fault = None
               /\ compressed = None]_vars
    /\ [][compressed' # compressed
            => pc = "compress" /\ compressed' = Some(gzip(tar))]_vars
    /\ [][tar' # tar => pc = "walk" /\ compressed = None]_vars
    /\ []((fault # None /\ fault[1] \in {"walk", "append"})
            => pc \in {"run_ret", "exited"} /\ walkPos <= Len(tree) + 1)
    /\ [](ArchivingFailed
            => /\ compressed = None
               /\ buildReq = None
               /\ pushReq = None
               /\ result # None /\ result # Some("Ok")
               /\ pc \in {"run_ret", "exited"})

ArchiveThenCompressWitness ==
    /\ fault = Some("append")
    /\ tar # <<>>
    /\ walkPos <= Len(tree)
    /\ compressed = None
    /\ pc = "exited"
    /\ exitCode = Some(1)

(* C23: split_image loses no information: for every input string either    *)
(* the result is (input, "latest") or repository + ":" + tag is exactly    *)
(* the input, so the pair pushed denotes the image string given to the     *)
(* build as tag.                                                           *)

SplitLossless ==
    pc = "split_ret" =>
        LET repo == repoTag[1][1]
            tag == repoTag[1][2]
        IN  \/ repo = image /\ tag = LATEST
            \/ repo \o <<":">> \o tag = image

SplitLosslessWitness ==
    /\ pc = "split_ret"
    /\ image = LOCALHOST_5000_TESTE_NGINX_DEV
    /\ repoTag = Some(<<LOCALHOST_5000_TESTE_NGINX, DEV>>)
    /\ repoTag[1][1] \o <<":">> \o repoTag[1][2] = image

(* C25: each decoded push message produces at most one report and the      *)
(* error field takes precedence: a message with an error field reports     *)
(* only the error, not its status or progress, and a message with a        *)
(* progress but no status and no error produces no output.                 *)

PushAtMostOneReport ==
    \A i \in OkItems("push") :
        LET m == arrived[i].item
        IN  /\ Cardinality(OutputsFor(i)) <= 1
            /\ m.error # None =>
                 /\ LogPositions(Err("push_error", i)) # {}
                 /\ LogPositions(Out("push_status", i)) = {}
                 /\ LogPositions(Out("push_status_progress", i)) = {}
            /\ (m.progress # None /\ m.status = None /\ m.error = None)
                 => OutputsFor(i) = {}

PushAtMostOneReportWitness ==
    /\ pushState = "Drained"
    /\ \E i, j \in OkItems("push") :
         /\ arrived[i].item.error # None
         /\ arrived[i].item.status # None
         /\ arrived[i].item.progress # None
         /\ Cardinality(OutputsFor(i)) = 1
         /\ arrived[j].item = [kind |-> "Ok", status |-> None,
                               progress |-> Text, error |-> None]
         /\ OutputsFor(j) = {}

(* C24: whenever the configuration check passes and archiving succeeds,    *)
(* the archive sent to the daemon contains an entry at the Dockerfile path *)
(* named in the build request, for every ignore-rule list and every tree.  *)

DockerfileInArchive ==
    buildReq # None =>
        \E i \in 1..Len(gunzip(buildReq[1].body)) :
            gunzip(buildReq[1].body)[i] = buildReq[1].dockerfile

-----------------------------------------------------------------------------
(* The paastel CLI (cli.rs): config.toml, session.toml and the commands    *)

DEFAULT_BASE_URL == "http://localhost:3000/graphql"

AuthConfig(base_url, token) == [base_url |-> base_url, token |-> token]

SessionContext(organization_id, organization_slug, team_id, team_slug) ==
    [organization_id |-> organization_id,
     organization_slug |-> organization_slug,
     team_id |-> team_id,
     team_slug |-> team_slug]

\* Config::default() and Session::default()
ConfigDefault == AuthConfig("", "")
SessionDefault == SessionContext(None, None, None, None)

\* load_config().unwrap_or_default(): the file's value, the default without
\* a file
load_config(file) == IF file = None THEN ConfigDefault ELSE file[1]

\* load_session().unwrap_or_default()
load_session(file) == IF file = None THEN SessionDefault ELSE file[1]

\* An i64 as its upper and lower 32 bits: the value is hi * 2^32 + lo
I64(hi, lo) == [hi |-> hi, lo |-> lo]

\* `x as i32` keeps the lower 32 bits of an i64
as_i32(x) == x.lo

\* `n as i64` of a non-negative i32
as_i64(n) == I64(0, n)

\* ensure_authenticated: Some(cfg), or None for the error
ensure_authenticated(file) ==
    LET cfg == load_config(file)
    IN  IF cfg.token = "" THEN None
        ELSE IF cfg.base_url = "" THEN None
        ELSE Some(cfg)

\* What the commands are given and what the server answers
BaseUrlArgs == {None, Some("http://api/graphql"), Some("")}
Tokens == {"t1", "t2"}
IdArgs == {None, Some(I64(0, 1)), Some(I64(1, 1))}
SlugArgs == {None, Some("acme")}
ServerIds == {7}
Slugs == {"acme"}

\* The GraphQL request of one mutation
Request(op, cfg, input) ==
    [op |-> op, url |-> cfg.base_url, bearer |-> cfg.token, input |-> input]

\* A command has run: what it was, what main returned, what it sent
Ran(cmd, res, requests) ==
    /\ pc = "cli"
    /\ pc' = pc
    /\ command' = Some(cmd)
    /\ outcome' = Some(res)
    /\ sent' = requests

\* lines 585-622: auth login; the reply is the token, or None for a failed
\* registerUser; io says which save fails, if any
AuthLogin ==
    \E base_url \in BaseUrlArgs,
       reply \in {None} \cup {Some(t) : t \in Tokens},
       io \in {"ok", "save_config_fails", "save_session_fails"} :
        LET cfg == load_config(config_toml)
            url == IF base_url # None THEN base_url[1]
                   ELSE IF cfg.base_url = "" THEN DEFAULT_BASE_URL
                   ELSE cfg.base_url
            cmd == [kind |-> "auth login", base_url |-> base_url]
            req == Request("registerUser", AuthConfig(url, ""), None)
        IN  /\ IF url = ""
                   THEN /\ Ran(cmd, "Err", <<>>)
                        /\ UNCHANGED <<config_toml, session_toml>>
               ELSE IF reply = None \/ io = "save_config_fails"
                   THEN /\ Ran(cmd, "Err", <<req>>)
                        /\ UNCHANGED <<config_toml, session_toml>>
               ELSE /\ config_toml' = Some(AuthConfig(url, reply[1]))
                    /\ IF io = "save_session_fails"
                           THEN /\ Ran(cmd, "Err", <<req>>)
                                /\ UNCHANGED session_toml
                           ELSE /\ Ran(cmd, "Ok", <<req>>)
                                /\ session_toml' = Some(SessionDefault)
            /\ UNCHANGED <<buildVars, shellVars>>

\* lines 630-635: auth logout
AuthLogout ==
    \E io \in BOOLEAN :
        LET cfg == load_config(config_toml)
            cmd == [kind |-> "auth logout"]
        IN  /\ IF io
                   THEN /\ config_toml' = Some(AuthConfig(cfg.base_url, ""))
                        /\ Ran(cmd, "Ok", <<>>)
                   ELSE /\ UNCHANGED config_toml
                        /\ Ran(cmd, "Err", <<>>)
            /\ UNCHANGED <<session_toml, buildVars, shellVars>>

\* lines 636-645: auth status
AuthStatus ==
    /\ Ran([kind |-> "auth status"], "Ok", <<>>)
    /\ UNCHANGED <<config_toml, session_toml, buildVars, shellVars>>

\* lines 656-681: org create; the reply is the id of the new organization,
\* or None for a failed createOrganization
OrgCreate ==
    \E slug \in Slugs, reply \in {None} \cup {Some(i) : i \in ServerIds},
       io \in BOOLEAN :
        LET auth == ensure_authenticated(config_toml)
            cmd == [kind |-> "org create", slug |-> slug]
            sess == load_session(session_toml)
        IN  /\ IF auth = None
                   THEN /\ Ran(cmd, "Err", <<>>)
                        /\ UNCHANGED session_toml
               ELSE LET req == Request("createOrganization", auth[1],
                                       [slug |-> slug])
                    IN  IF reply = None \/ ~io
                            THEN /\ Ran(cmd, "Err", <<req>>)
                                 /\ UNCHANGED session_toml
                            ELSE /\ Ran(cmd, "Ok", <<req>>)
                                 /\ session_toml' =
                                      Some([sess EXCEPT
                                        !.organization_id =
                                            Some(as_i64(reply[1])),
                                        !.organization_slug = Some(slug),
                                        !.team_id = None,
                                        !.team_slug = None])
            /\ UNCHANGED <<config_toml, buildVars, shellVars>>

OrgUseKeepsTeam ==
    \E id \in IdArgs, slug \in SlugArgs, io \in BOOLEAN :
        LET auth == ensure_authenticated(config_toml)
            cmd == [kind |-> "org use", id |-> id, slug |-> slug]
            sess == load_session(session_toml)
        IN  /\ IF auth = None \/ (id = None /\ slug = None) \/ ~io
                   THEN /\ Ran(cmd, "Err", <<>>)
                        /\ UNCHANGED session_toml
                   ELSE /\ Ran(cmd, "Ok", <<>>)
                        /\ session_toml' =
                             IF id # None
                                 THEN Some([sess EXCEPT
                                        !.organization_id = id,
                                        !.organization_slug = None])
                                 ELSE Some([sess EXCEPT
                                        !.organization_slug = slug,
                                        !.organization_id = None])
            /\ UNCHANGED <<config_toml, buildVars, shellVars>>

\* lines 682-712: org use
OrgUse ==
    \E id \in IdArgs, slug \in SlugArgs, io \in BOOLEAN :
        LET auth == ensure_authenticated(config_toml)
            cmd == [kind |-> "org use", id |-> id, slug |-> slug]
            sess == load_session(session_toml)
        IN  /\ IF auth = None \/ (id = None /\ slug = None) \/ ~io
                   THEN /\ Ran(cmd, "Err", <<>>)
                        /\ UNCHANGED session_toml
                   ELSE /\ Ran(cmd, "Ok", <<>>)
                        /\ session_toml' =
                             IF id # None
                                 THEN Some([sess EXCEPT
                                        !.organization_id = id,
                                        !.organization_slug = None,
                                        !.team_id = None,
                                        !.team_slug = None])
                                 ELSE Some([sess EXCEPT
                                        !.organization_slug = slug,
                                        !.organization_id = None,
                                        !.team_id = None,
                                        !.team_slug = None])
            /\ UNCHANGED <<config_toml, buildVars, shellVars>>

\* lines 724-754: team create; the reply is the id of the new team, or None
\* for a failed createTeam
TeamCreate ==
    \E slug \in Slugs, reply \in {None} \cup {Some(i) : i \in ServerIds},
       io \in BOOLEAN :
        LET auth == ensure_authenticated(config_toml)
            cmd == [kind |-> "team create", slug |-> slug]
            sess == load_session(session_toml)
        IN  /\ IF auth = None \/ sess.organization_id = None
                   THEN /\ Ran(cmd, "Err", <<>>)
                        /\ UNCHANGED session_toml
               ELSE LET org_id == sess.organization_id[1]
                        req == Request("createTeam", auth[1],
                                       [organizationId |-> as_i32(org_id),
                                        slug |-> slug])
                    IN  IF reply = None \/ ~io
                            THEN /\ Ran(cmd, "Err", <<req>>)
                                 /\ UNCHANGED session_toml
                            ELSE /\ Ran(cmd, "Ok", <<req>>)
                                 /\ session_toml' =
                                      Some([sess EXCEPT
                                        !.team_id = Some(as_i64(reply[1])),
                                        !.team_slug = Some(slug)])
            /\ UNCHANGED <<config_toml, buildVars, shellVars>>

\* lines 755-786: team use
TeamUse ==
    \E id \in IdArgs, slug \in SlugArgs, io \in BOOLEAN :
        LET auth == ensure_authenticated(config_toml)
            cmd == [kind |-> "team use", id |-> id, slug |-> slug]
            sess == load_session(session_toml)
        IN  /\ IF \/ auth = None
                  \/ (sess.organization_id = None
                      /\ sess.organization_slug = None)
                  \/ (id = None /\ slug = None)
                  \/ ~io
                   THEN /\ Ran(cmd, "Err", <<>>)
                        /\ UNCHANGED session_toml
                   ELSE /\ Ran(cmd, "Ok", <<>>)
                        /\ session_toml' =
                             IF id # None
                                 THEN Some([sess EXCEPT !.team_id = id,
                                                        !.team_slug = None])
                                 ELSE Some([sess EXCEPT !.team_slug = slug,
                                                        !.team_id = None])
            /\ UNCHANGED <<config_toml, buildVars, shellVars>>

\* lines 795-840: context show
ContextShow ==
    /\ Ran([kind |-> "context show"], "Ok", <<>>)
    /\ UNCHANGED <<config_toml, session_toml, buildVars, shellVars>>

ContextClearLogsOut ==
    \E io \in BOOLEAN :
        LET cmd == [kind |-> "context clear"]
        IN  /\ IF session_toml = None
                   THEN /\ Ran(cmd, "Ok", <<>>)
                        /\ UNCHANGED <<session_toml, config_toml>>
               ELSE IF io
                   THEN /\ Ran(cmd, "Ok", <<>>)
                        /\ session_toml' = None
                        /\ config_toml' = None
               ELSE /\ Ran(cmd, "Err", <<>>)
                    /\ UNCHANGED <<session_toml, config_toml>>
            /\ UNCHANGED <<buildVars, shellVars>>

\* lines 842-852: context clear; io is whether remove_file succeeds
ContextClear ==
    \E io \in BOOLEAN :
        LET cmd == [kind |-> "context clear"]
        IN  /\ IF session_toml = None
                   THEN /\ Ran(cmd, "Ok", <<>>)
                        /\ UNCHANGED session_toml
               ELSE IF io
                   THEN /\ Ran(cmd, "Ok", <<>>)
                        /\ session_toml' = None
               ELSE /\ Ran(cmd, "Err", <<>>)
                    /\ UNCHANGED session_toml
            /\ UNCHANGED <<config_toml, buildVars, shellVars>>

\* lines 862-871: app create is not implemented
AppCreate ==
    /\ Ran([kind |-> "app create"], "Err", <<>>)
    /\ UNCHANGED <<config_toml, session_toml, buildVars, shellVars>>

\* A fresh installation: no config.toml, no session.toml
InitCli ==
    /\ pc = "cli"
    /\ image = <<>>
    /\ repoTag = None
    /\ relPath = None
    /\ ignored = None
    /\ ignoreFile = None
    /\ IdleRun

\* lines 564-577: main dispatches one command per invocation
NextCli ==
    \/ AuthLogin
    \/ AuthLogout
    \/ AuthStatus
    \/ OrgCreate
    \/ OrgUse
    \/ TeamCreate
    \/ TeamUse
    \/ ContextShow
    \/ ContextClear
    \/ AppCreate

SpecCli == InitCli /\ [][NextCli]_vars

-----------------------------------------------------------------------------
(* C26: after any sequence of CLI commands from an empty session the       *)
(* stored session never has a team set while no organization is set; every *)
(* successful org create or org use clears both team fields, a successful  *)
(* login resets the whole session, and a use command leaves exactly one of *)
(* the two fields of its pair set.                                         *)

OrgSelected(sess) ==
    sess.organization_id # None \/ sess.organization_slug # None

TeamSelected(sess) == sess.team_id # None \/ sess.team_slug # None

\* the last command was one of the kinds and succeeded
Succeeded(kinds) ==
    command # None /\ command[1].kind \in kinds /\ outcome = Some("Ok")

SessionWellFormed ==
    LET sess == load_session(session_toml)
    IN  /\ TeamSelected(sess) => OrgSelected(sess)
        /\ Succeeded({"org create", "org use"})
             => sess.team_id = None /\ sess.team_slug = None
        /\ Succeeded({"auth login"}) => session_toml = Some(SessionDefault)
        /\ Succeeded({"org use"})
             => (sess.organization_id = None) # (sess.organization_slug = None)
        /\ Succeeded({"team use"})
             => (sess.team_id = None) # (sess.team_slug = None)

SessionWellFormedWitness ==
    /\ Succeeded({"team use"})
    /\ load_session(session_toml) =
         SessionContext(None, Some("acme"), Some(I64(1, 1)), None)

(* C27: team create fails without a request and without a change of the   *)
(* session when the token is empty or no organization is selected; when    *)
(* the user is authenticated and an organization is selected (by org       *)
(* create, or by org use with --id or --slug) it sends the createTeam      *)
(* request for that organization and stores the new team as current team.  *)

\* the step runs a command of the kind
Runs(kind) == command' # None /\ command'[1].kind = kind

TeamCreateContract ==
    [][Runs("team create") =>
        LET cfg == load_config(config_toml)
            sess == load_session(session_toml)
        IN  IF cfg.token = "" \/ ~OrgSelected(sess)
                THEN /\ sent' = <<>>
                     /\ outcome' = Some("Err")
                     /\ session_toml' = session_toml
                ELSE /\ Len(sent') = 1
                     /\ sent'[1].op = "createTeam"
                     /\ sess.organization_id # None
                     /\ as_i64(sent'[1].input.organizationId)
                          = sess.organization_id[1]
                     /\ outcome' = Some("Ok")
                          => /\ load_session(session_toml').team_id # None
                             /\ load_session(session_toml').team_slug
                                  = Some(command'[1].slug)]_vars

(* C28: session and authentication are independent stores: context clear   *)
(* removes the session and leaves endpoint and token unchanged; auth       *)
(* logout empties the token and leaves the endpoint and the session        *)
(* unchanged; auth status and context show change neither.                 *)

StoresIndependent ==
    /\ [][Runs("context clear") =>
            /\ config_toml' = config_toml
            /\ outcome' = Some("Ok") => session_toml' = None]_vars
    /\ [][Runs("auth logout") =>
            /\ session_toml' = session_toml
            /\ load_config(config_toml').base_url
                 = load_config(config_toml).base_url
            /\ outcome' = Some("Ok") => load_config(config_toml').token = ""]_vars
    /\ [][(Runs("auth status") \/ Runs("context show"))
            => UNCHANGED <<config_toml, session_toml>>]_vars

StoresIndependentWitness ==
    /\ command = Some([kind |-> "auth logout"])
    /\ outcome = Some("Ok")
    /\ load_config(config_toml) = AuthConfig(DEFAULT_BASE_URL, "")
    /\ TeamSelected(load_session(session_toml))

-----------------------------------------------------------------------------
(* The git shell (git_shell.rs)                                            *)

GIT_RECEIVE_PACK ==
    <<"g", "i", "t", "-", "r", "e", "c", "e", "i", "v", "e", "-",
      "p", "a", "c", "k">>
GIT_UPLOAD_PACK ==
    <<"g", "i", "t", "-", "u", "p", "l", "o", "a", "d", "-", "p", "a", "c", "k">>
GIT_UPLOAD_ARCHIVE ==
    <<"g", "i", "t", "-", "u", "p", "l", "o", "a", "d", "-",
      "a", "r", "c", "h", "i", "v", "e">>

\* the candidates of parse_git_command, in the order of its loop
Candidates == <<GIT_RECEIVE_PACK, GIT_UPLOAD_PACK, GIT_UPLOAD_ARCHIVE>>

\* PAASTEL_GIT_ROOT
GitRoot == <<"/", "g">>

\* str::strip_prefix: Some(rest) or None
strip_prefix(s, prefix) ==
    IF Len(s) >= Len(prefix) /\ SubSeq(s, 1, Len(prefix)) = prefix
        THEN Some(SubSeq(s, Len(prefix) + 1, Len(s)))
        ELSE None

\* str::strip_suffix: Some(rest) or None
strip_suffix(s, suffix) ==
    IF Len(s) >= Len(suffix)
       /\ SubSeq(s, Len(s) - Len(suffix) + 1, Len(s)) = suffix
        THEN Some(SubSeq(s, 1, Len(s) - Len(suffix)))
        ELSE None

\* lines 79-85: strip single or double quotes around the path if present
unquote(repo) ==
    LET inner(q) == IF strip_prefix(repo, <<q>>) = None THEN None
                    ELSE strip_suffix(strip_prefix(repo, <<q>>)[1], <<q>>)
    IN  IF inner("'") # None THEN inner("'")[1]
        ELSE IF inner("\"") # None THEN inner("\"")[1]
        ELSE repo

\* parse_git_command from candidate i on: [kind |-> "ok", git_cmd, repo] or
\* [kind |-> "error", what]
RECURSIVE parse_from(_, _)
parse_from(cmd, i) ==
    IF i > Len(Candidates) THEN [kind |-> "error", what |-> "unsupported"]
    ELSE LET rest == strip_prefix(cmd, Candidates[i] \o <<" ">>)
         IN  IF rest = None THEN parse_from(cmd, i + 1)
             ELSE LET repo == unquote(trim(rest[1]))
                  IN  IF repo = <<>>
                          THEN [kind |-> "error", what |-> "missing_path"]
                          ELSE [kind |-> "ok", git_cmd |-> Candidates[i],
                                repo |-> repo]

parse_git_command(cmd) == parse_from(trim(cmd), 1)

\* str::contains("..")
contains_dotdot(raw) ==
    \E i \in 1..(Len(raw) - 1) : raw[i] = "." /\ raw[i + 1] = "."

\* str::trim_start_matches('/')
RECURSIVE trim_start_slashes(_)
trim_start_slashes(s) ==
    IF s # <<>> /\ Head(s) = "/" THEN trim_start_slashes(Tail(s)) ELSE s

\* sanitize_repo_path: Some(relative path) or None for the error
sanitize_repo_path(raw) ==
    IF contains_dotdot(raw) THEN None
    ELSE LET trimmed == trim_start_slashes(raw)
         IN  IF trimmed = <<>> THEN None ELSE Some(trimmed)

\* Path::join: an absolute path replaces the base
join(base, path) ==
    IF path # <<>> /\ Head(path) = "/" THEN path
    ELSE IF base # <<>> /\ base[Len(base)] = "/" THEN base \o path
    ELSE base \o <<"/">> \o path

\* line 32
repo_full == join(GitRoot, repo_rel[1])

\* Path::components of an absolute path from character i on, cur being the
\* component read so far: empty components and "." are normalized away
RECURSIVE components(_, _, _)
components(path, i, cur) ==
    LET done == IF cur = <<>> \/ cur = <<".">> THEN <<>> ELSE <<cur>>
    IN  IF i > Len(path) THEN done
        ELSE IF path[i] = "/" THEN done \o components(path, i + 1, <<>>)
        ELSE components(path, i + 1, Append(cur, path[i]))

\* the absolute path with the given components
RECURSIVE from_components(_)
from_components(cs) ==
    IF cs = <<>> THEN <<>>
    ELSE <<"/">> \o Head(cs) \o from_components(Tail(cs))

\* Path::parent of an absolute path with at least one component
path_parent(path) ==
    LET cs == components(path, 1, <<>>)
    IN  IF Len(cs) = 1 THEN <<"/">>
        ELSE from_components(SubSeq(cs, 1, Len(cs) - 1))

\* An effect of main on the filesystem or a subprocess it starts
Effect(op, path) == [op |-> op, path |-> path]

\* main returns: Ok, or the error named
Exit(what) ==
    /\ exit_status' = Some(what)
    /\ pc' = "sh_exit"

\* lines 16-32: the command is read, parsed and its path sanitized
ParseAndSanitize ==
    /\ pc = "sh_start"
    /\ IF original_command = None
           THEN Exit("no_command") /\ UNCHANGED <<git_cmd, repo_rel>>
       ELSE LET r == parse_git_command(original_command[1])
            IN  IF r.kind = "error"
                    THEN Exit(r.what) /\ UNCHANGED <<git_cmd, repo_rel>>
                    ELSE /\ git_cmd' = Some(r.git_cmd)
                         /\ repo_rel' = sanitize_repo_path(r.repo)
                         /\ IF repo_rel' = None
                                THEN Exit("invalid_path")
                                ELSE pc' = "sh_mkdir" /\ UNCHANGED exit_status
    /\ UNCHANGED <<original_command, repo_exists, effects, cliVars, buildVars>>

\* lines 35-39: create_dir_all on the parent of the full path
CreateParentDirs ==
    /\ pc = "sh_mkdir"
    /\ effects' = Append(effects,
                          Effect("create_dir_all", path_parent(repo_full)))
    /\ \E ok \in BOOLEAN :
        IF ok THEN pc' = "sh_init" /\ UNCHANGED exit_status
        ELSE Exit("create_dir_all")
    /\ UNCHANGED <<original_command, repo_exists, git_cmd, repo_rel, cliVars,
                   buildVars>>

InitAlways ==
    /\ pc = "sh_init"
    /\ effects' = Append(effects, Effect("git init --bare", repo_full))
    /\ \E ok \in BOOLEAN :
        IF ok THEN /\ repo_exists' = TRUE
                   /\ pc' = "sh_delegate"
                   /\ UNCHANGED exit_status
        ELSE Exit("init") /\ UNCHANGED repo_exists
    /\ UNCHANGED <<original_command, git_cmd, repo_rel, cliVars, buildVars>>

\* lines 42-44 and init_bare_repo, lines 121-139
InitIfNeeded ==
    /\ pc = "sh_init"
    /\ IF git_cmd = Some(GIT_RECEIVE_PACK) /\ ~repo_exists
           THEN /\ effects' =
                     Append(effects, Effect("git init --bare", repo_full))
                /\ \E ok \in BOOLEAN :
                    IF ok THEN /\ repo_exists' = TRUE
                               /\ pc' = "sh_delegate"
                               /\ UNCHANGED exit_status
                    ELSE Exit("init") /\ UNCHANGED repo_exists
           ELSE /\ pc' = "sh_delegate"
                /\ UNCHANGED <<effects, repo_exists, exit_status>>
    /\ UNCHANGED <<original_command, git_cmd, repo_rel, cliVars, buildVars>>

\* lines 47-63: the real git command runs on the full path
Delegate ==
    /\ pc = "sh_delegate"
    /\ effects' = Append(effects, [op |-> "spawn", cmd |-> git_cmd[1],
                                   path |-> repo_full])
    /\ \E how \in {"Ok", "spawn", "exit_code"} : Exit(how)
    /\ UNCHANGED <<original_command, repo_exists, git_cmd, repo_rel, cliVars,
                   buildVars>>

\* The commands sshd can hand over: a word, a separator, the rest
CommandWords ==
    {GIT_RECEIVE_PACK, GIT_UPLOAD_PACK, GIT_UPLOAD_ARCHIVE, <<"g", "i", "t">>}

PathAlphabet == {"/", ".", "a", "'"}

ExampleTails ==
    { <<"'", "/", "a", "'">>,
      <<"\"", "/", "a", "\"">>,
      <<" ", "'", "a", "'", " ">>,
      <<"a", "/", ".", ".", "/", "a">>,
      <<"\"", "\"">> }

CommandPool ==
    {w \o sep \o t :
        w \in CommandWords, sep \in {<<>>, <<" ">>},
        t \in StringsUpTo(PathAlphabet, MaxPathLen) \cup ExampleTails}

InitShell ==
    /\ pc = "sh_start"
    /\ original_command \in {None} \cup {Some(c) : c \in CommandPool}
    /\ repo_exists \in BOOLEAN
    /\ git_cmd = None
    /\ repo_rel = None
    /\ effects = <<>>
    /\ exit_status = None
    /\ IdleCli
    /\ image = <<>>
    /\ repoTag = None
    /\ relPath = None
    /\ ignored = None
    /\ ignoreFile = None
    /\ pull = FALSE
    /\ dockerfile = <<>>
    /\ ctxExists = TRUE
    /\ tree = <<>>
    /\ rules = None
    /\ loads = 0
    /\ badLine = None
    /\ walkPos = 1
    /\ tar = <<>>
    /\ compressed = None
    /\ buildReq = None
    /\ pushReq = None
    /\ buildState = "Idle"
    /\ pushState = "Idle"
    /\ arrived = <<>>
    /\ log = <<>>
    /\ result = None
    /\ exitCode = None
    /\ fault = None

NextShell ==
    \/ ParseAndSanitize
    \/ CreateParentDirs
    \/ InitIfNeeded
    \/ Delegate

SpecShell == InitShell /\ [][NextShell]_vars

-----------------------------------------------------------------------------
(* C29: for every raw repository path sanitize_repo_path either fails or   *)
(* returns a non-empty relative path without ".." that does not start with *)
(* '/'; the full path built by joining it to the git root therefore stays  *)
(* below the git root, and a rejected path causes no directory creation,   *)
(* no repository initialisation and no git subprocess.                     *)

\* some two neighbouring characters of the path are both dots
HasDotDot(path) ==
    \E i \in 1..Len(path) : i < Len(path) /\ path[i] = "." /\ path[i + 1] = "."

\* the path names a proper descendant of the git root: its components, as
\* Path compares them, are those of the root followed by at least one more,
\* none of them climbing
BelowRoot(path) ==
    LET cs == components(path, 1, <<>>)
        rs == components(GitRoot, 1, <<>>)
    IN  /\ Len(cs) > Len(rs)
        /\ SubSeq(cs, 1, Len(rs)) = rs
        /\ \A k \in 1..Len(cs) : cs[k] # <<".", ".">>

PathRejected == git_cmd # None /\ repo_rel = None /\ pc = "sh_exit"

SanitizedBelowRoot ==
    /\ repo_rel # None =>
         /\ repo_rel[1] # <<>>
         /\ ~HasDotDot(repo_rel[1])
         /\ repo_rel[1][1] # "/"
         /\ BelowRoot(repo_full)
         /\ \A k \in 1..Len(effects) :
              effects[k].op # "create_dir_all" => effects[k].path = repo_full
    /\ repo_rel = None => effects = <<>>
    /\ PathRejected => exit_status = Some("invalid_path") /\ effects = <<>>

(* C30: the git shell accepts only commands of the form git-receive-pack,  *)
(* git-upload-pack or git-upload-archive followed by a non-empty path, and *)
(* rejects every other command before any filesystem or subprocess effect; *)
(* a bare repository is initialised only when the command is               *)
(* git-receive-pack and the repository path does not yet exist; the        *)
(* initialisation comes before the delegation of the git command, and a    *)
(* failed initialisation prevents the delegation.                          *)

\* the command is the word, a space and a rest that is more than whitespace
HasForm(cmd, word) ==
    LET c == trim(cmd)
    IN  /\ Len(c) > Len(word) + 1
        /\ SubSeq(c, 1, Len(word) + 1) = word \o <<" ">>

EffectsOf(op) == {k \in 1..Len(effects) : effects[k].op = op}

ShellProtocol ==
    /\ [](git_cmd # None =>
            /\ git_cmd[1] \in {GIT_RECEIVE_PACK, GIT_UPLOAD_PACK,
                               GIT_UPLOAD_ARCHIVE}
            /\ HasForm(original_command[1], git_cmd[1]))
    /\ [](repo_rel # None => git_cmd # None /\ repo_rel[1] # <<>>)
    /\ [](effects # <<>> => git_cmd # None /\ repo_rel # None)
    /\ []((pc = "sh_exit" /\ git_cmd = None) => effects = <<>>)
    /\ [][EffectsOf("git init --bare")' # EffectsOf("git init --bare")
            => /\ git_cmd = Some(GIT_RECEIVE_PACK)
               /\ ~repo_exists
               /\ EffectsOf("spawn") = {}]_vars
    /\ [](\A i \in EffectsOf("git init --bare") :
            \A d \in EffectsOf("spawn") : i < d)
    /\ [](exit_status = Some("init") => EffectsOf("spawn") = {})
    /\ [](Cardinality(EffectsOf("git init --bare")) <= 1)

ShellProtocolWitness ==
    /\ git_cmd = Some(GIT_RECEIVE_PACK)
    /\ Len(effects) = 3
    /\ effects[2] = Effect("git init --bare", repo_full)
    /\ effects[3].op = "spawn"
    /\ repo_exists
    /\ exit_status = Some("Ok")

====
